---- MODULE Spec2Model ----
(***************************************************************************)
(* A model of the real-time core of the chat service:                      *)
(*   - the Room Broadcast Registry of server/routes.ts (roomClients, the   *)
(*     per-connection closure variables, the ws message/close handlers and *)
(*     broadcast);                                                         *)
(*   - the in-memory Entity Store (MemStorage) and the request handlers    *)
(*     that use it;                                                        *)
(*   - the client half: the ChatArea message list, the send mutation and   *)
(*     the useWebSocket hook.                                              *)
(*                                                                         *)
(* Identifiers are naturals.  0 stands for every falsy JavaScript value an *)
(* id can take (null, undefined, ""): the code tests ids by truthiness     *)
(* only.  Fresh ids (randomUUID) are the next unused positive number.      *)
(***************************************************************************)
EXTENDS Integers, Sequences, FiniteSets, TLC

\* ------------------------------------------------------------------ universe

\* The live transport connections the server may accept.
Conns == {"A", "B", "C"}

\* "no connection": the undefined `exclude` argument of broadcast.
NoConn == "none"

\* The falsy id (null / undefined / "").
NoId == 0

\* Room ids and user ids a join_room frame may carry (the frame is parsed
\* JSON and is not validated, so the falsy id is among them).
RoomIds == {0, 1, 2}
UserIds == {0, 1}

VARIABLES
  \* ---- Room Broadcast Registry (server/routes.ts)
  roomClients,    \* Map<roomId, Set<WebSocket>>: a function on the keys set so far
  currentRoomId,  \* per connection: the closure variable currentRoomId
  currentUserId,  \* per connection: the closure variable currentUserId
  readyState,     \* per connection: "NONE" (not accepted yet), "OPEN", "CLOSING", "CLOSED"
  lastOp,         \* the event the server handled last: its kind, its connection, its frame
  published,      \* <<>> or <<[roomId, event, exclude]>>: the broadcast call of the last handler
  sent            \* per connection: the frames client.send wrote during the last handler

regVars == <<roomClients, currentRoomId, currentUserId, readyState, lastOp, published, sent>>

VARIABLES
  \* ---- Entity Store (MemStorage) and the session table; each Map is the
  \* sequence of its values in insertion order
  users,          \* Map<id, User>
  chatRooms,      \* Map<id, ChatRoom>
  roomMembers,    \* Map<id, RoomMember>
  messages,       \* Map<id, Message>
  deliveryTimers, \* ids of the messages whose 1-second delivery timer is pending
  userSessions,   \* Map<sessionId, userId>: a function on the session ids in the table
  sessionCount,   \* session ids issued so far (each new session id is fresh)
  now,            \* the server clock (new Date(), Date.now()), in seconds
  typingStatuses, \* Map<`userId-roomId`, TypingStatus>
  typingTimers,   \* the pending 3-second clear timers, in the order they were armed
  \* ---- signup requests being handled
  signup,         \* per request: where its handler is suspended, its locals, its response
  \* ---- the HTTP request handled last
  bearer          \* the session id of its Authorization header, NoId when it has none

storeVars ==
  <<users, chatRooms, roomMembers, messages, deliveryTimers, userSessions, sessionCount, now,
    typingStatuses, typingTimers>>

VARIABLES
  \* ---- the transport between the browsers and the server
  up,             \* per connection: the frames the browser sent, not yet handled by the server
  wire,           \* per connection: the frames the server wrote, not yet handled by the browser
  \* ---- the browser's WebSocket objects (one per connection)
  socketOwner,    \* per connection: the client whose connect() created the socket
  socketState,    \* per connection: "NONE", "CONNECTING", "OPEN", "CLOSED" as the browser sees it
  \* ---- one ChatArea per client (chat-area, message-input, use-websocket)
  selectedRoom,      \* room.id of the mounted ChatArea, NoId when none is mounted
  clientUser,        \* currentUser.id
  wsCurrent,         \* ws.current: a connection or NoConn
  connectionStatus,  \* 'connecting' | 'connected' | 'disconnected'
  chatMessages,      \* the `messages` state of ChatArea
  messagesQuery,     \* the list-messages query: its phase and the response in flight
                     \* (once arrived it is which only the
                     \* initialising effect reads, at that moment)
  sendMutation,      \* sendMessageMutation: <<>> or <<the response in flight>>
  reconnectAttempts, \* reconnectAttempts.current
  reconnectTimers,   \* the pending reconnect timeouts: when each is due, and whether
                     \* reconnectTimeoutRef.current names it
  realtimeTypingUsers, \* realtimeTypingUsers of ChatArea: the ids of the users shown
  inputIsTyping           \* the isTyping state of MessageInput

netVars == <<up, wire>>
clientVars ==
  <<socketOwner, socketState, selectedRoom, clientUser, wsCurrent, connectionStatus, chatMessages, messagesQuery,
    sendMutation, reconnectAttempts, reconnectTimers, realtimeTypingUsers, inputIsTyping>>

reqVars == <<signup, bearer>>

vars == <<regVars, storeVars, reqVars, netVars, clientVars>>

\* ------------------------------------------------------------------ events

UserJoined(userId, roomId) == [type |-> "user_joined", userId |-> userId, roomId |-> roomId]
UserLeft(userId, roomId) == [type |-> "user_left", userId |-> userId, roomId |-> roomId]
TypingStatus(userId, isTyping, roomId) ==
  [type |-> "typing_status", userId |-> userId, isTyping |-> isTyping, roomId |-> roomId]
NewMessage(message) == [type |-> "new_message", message |-> message]

\* JavaScript truthiness of an id.
Truthy(x) == x /= NoId

NoSends == [c \in Conns |-> <<>>]

\* ------------------------------------------------- Room Broadcast Registry

\* roomClients.has(roomId)
HasRoom(clients, roomId) == roomId \in DOMAIN clients

\* broadcast without its readyState test: it writes to sockets that are not OPEN.
broadcast_IgnoringReadyState(clients, ready, roomId, message, exclude) ==
  [client \in Conns |->
     IF /\ HasRoom(clients, roomId)
        /\ client \in clients[roomId]
        /\ client /= exclude
     THEN <<message>>
     ELSE <<>>]

\* broadcast(roomId, message, exclude) on the registry `clients`, the sockets
\* being in the states `ready`: the frames written to each connection.
broadcast(clients, ready, roomId, message, exclude) ==
  [client \in Conns |->
     IF /\ HasRoom(clients, roomId)
        /\ client \in clients[roomId]
        /\ client /= exclude
        /\ ready[client] = "OPEN"
     THEN <<message>>
     ELSE <<>>]

\* "Leave previous room if any": the registry after the first statement of
\* the join_room case.
LeavePreviousRoom(ws) ==
  IF Truthy(currentRoomId[ws]) /\ HasRoom(roomClients, currentRoomId[ws])
  THEN [roomClients EXCEPT ![currentRoomId[ws]] = @ \ {ws}]
  ELSE roomClients

\* "Join new room": create the room's set when missing, then add ws.
JoinNewRoom(clients, ws, roomId) ==
  LET withKey == IF HasRoom(clients, roomId) THEN clients ELSE clients @@ (roomId :> {})
  IN  [withKey EXCEPT ![roomId] = @ \cup {ws}]

\* wss.on('connection'): a new socket, its closure variables null.
Connection(ws) ==
  /\ readyState[ws] = "NONE"
  /\ readyState' = [readyState EXCEPT ![ws] = "OPEN"]
  /\ currentRoomId' = [currentRoomId EXCEPT ![ws] = NoId]
  /\ currentUserId' = [currentUserId EXCEPT ![ws] = NoId]
  /\ lastOp' = [type |-> "connection", ws |-> ws]
  /\ published' = <<>>
  /\ sent' = NoSends
  /\ UNCHANGED roomClients

\* The socket starts closing (close frame received, transport error): it is
\* no longer OPEN, and its 'close' event has not been emitted yet.
SocketClosing(ws) ==
  /\ readyState[ws] = "OPEN"
  /\ readyState' = [readyState EXCEPT ![ws] = "CLOSING"]
  /\ lastOp' = [type |-> "closing", ws |-> ws]
  /\ published' = <<>>
  /\ sent' = NoSends
  /\ UNCHANGED <<roomClients, currentRoomId, currentUserId>>

\* The join_room case calling broadcast without its third argument.
OnJoinRoom_NoExclude(ws, roomId, userId) ==
  /\ readyState[ws] = "OPEN"
  /\ LET clients == JoinNewRoom(LeavePreviousRoom(ws), ws, roomId)
         event == UserJoined(userId, roomId)
     IN  /\ roomClients' = clients
         /\ published' = <<[roomId |-> roomId, event |-> event, exclude |-> NoConn]>>
         /\ sent' = broadcast(clients, readyState, roomId, event, NoConn)
  /\ currentRoomId' = [currentRoomId EXCEPT ![ws] = roomId]
  /\ currentUserId' = [currentUserId EXCEPT ![ws] = userId]
  /\ lastOp' = [type |-> "join_room", ws |-> ws, roomId |-> roomId, userId |-> userId]
  /\ UNCHANGED readyState

\* case 'join_room'
OnJoinRoom(ws, roomId, userId) ==
  /\ readyState[ws] = "OPEN"
  /\ LET clients == JoinNewRoom(LeavePreviousRoom(ws), ws, roomId)
         event == UserJoined(userId, roomId)
     IN  /\ roomClients' = clients
         /\ published' = <<[roomId |-> roomId, event |-> event, exclude |-> ws]>>
         /\ sent' = broadcast(clients, readyState, roomId, event, ws)
  /\ currentRoomId' = [currentRoomId EXCEPT ![ws] = roomId]
  /\ currentUserId' = [currentUserId EXCEPT ![ws] = userId]
  /\ lastOp' = [type |-> "join_room", ws |-> ws, roomId |-> roomId, userId |-> userId]
  /\ UNCHANGED readyState

\* The new_message case passing ws as broadcast's third argument.
OnNewMessage_ExcludingSender(ws, message) ==
  /\ readyState[ws] = "OPEN"
  /\ IF Truthy(currentRoomId[ws])
     THEN LET event == NewMessage(message)
          IN  /\ published' = <<[roomId |-> currentRoomId[ws], event |-> event,
                                 exclude |-> ws]>>
              /\ sent' = broadcast(roomClients, readyState, currentRoomId[ws], event, ws)
     ELSE /\ published' = <<>>
          /\ sent' = NoSends
  /\ lastOp' = [type |-> "new_message", ws |-> ws, message |-> message]
  /\ UNCHANGED <<roomClients, currentRoomId, currentUserId, readyState>>

\* case 'new_message': relayed to the whole room, the sender included.
OnNewMessage(ws, message) ==
  /\ readyState[ws] = "OPEN"
  /\ IF Truthy(currentRoomId[ws])
     THEN LET event == NewMessage(message)
          IN  /\ published' = <<[roomId |-> currentRoomId[ws], event |-> event,
                                 exclude |-> NoConn]>>
              /\ sent' = broadcast(roomClients, readyState, currentRoomId[ws], event, NoConn)
     ELSE /\ published' = <<>>
          /\ sent' = NoSends
  /\ lastOp' = [type |-> "new_message", ws |-> ws, message |-> message]
  /\ UNCHANGED <<roomClients, currentRoomId, currentUserId, readyState>>

\* case 'typing_status': relayed to the other connections of the room.
OnTypingStatus(ws, isTyping) ==
  /\ readyState[ws] = "OPEN"
  /\ IF Truthy(currentRoomId[ws])
     THEN LET event == TypingStatus(currentUserId[ws], isTyping, currentRoomId[ws])
          IN  /\ published' = <<[roomId |-> currentRoomId[ws], event |-> event,
                                 exclude |-> ws]>>
              /\ sent' = broadcast(roomClients, readyState, currentRoomId[ws], event, ws)
     ELSE /\ published' = <<>>
          /\ sent' = NoSends
  /\ lastOp' = [type |-> "typing_status", ws |-> ws, isTyping |-> isTyping]
  /\ UNCHANGED <<roomClients, currentRoomId, currentUserId, readyState>>

\* ws.on('close'): the socket is CLOSED when the handler runs.
OnClose(ws) ==
  /\ readyState[ws] \in {"OPEN", "CLOSING"}
  /\ readyState' = [readyState EXCEPT ![ws] = "CLOSED"]
  /\ IF Truthy(currentRoomId[ws]) /\ HasRoom(roomClients, currentRoomId[ws])
     THEN LET clients == [roomClients EXCEPT ![currentRoomId[ws]] = @ \ {ws}]
              event == UserLeft(currentUserId[ws], currentRoomId[ws])
          IN  /\ roomClients' = clients
              /\ IF Truthy(currentUserId[ws])
                 THEN /\ published' = <<[roomId |-> currentRoomId[ws], event |-> event,
                                         exclude |-> ws]>>
                      /\ sent' = broadcast(clients, readyState', currentRoomId[ws], event, ws)
                 ELSE /\ published' = <<>>
                      /\ sent' = NoSends
     ELSE /\ roomClients' = roomClients
          /\ published' = <<>>
          /\ sent' = NoSends
  /\ lastOp' = [type |-> "close", ws |-> ws]
  /\ UNCHANGED <<currentRoomId, currentUserId>>

\* The state after registerRoutes: no room key, no connection.
RegistryInit ==
  /\ roomClients = << >>
  /\ currentRoomId = [c \in Conns |-> NoId]
  /\ currentUserId = [c \in Conns |-> NoId]
  /\ readyState = [c \in Conns |-> "NONE"]
  /\ lastOp = [type |-> "init", ws |-> NoConn]
  /\ published = <<>>
  /\ sent = NoSends

\* ----------------------------------------------------------- Entity Store

\* Array.from(map.values()).find(pred), `hits` being the positions where pred
\* holds: <<>> (undefined) or <<the first value in insertion order>>.
FindFirst(values, hits) ==
  IF hits = {} THEN <<>>
  ELSE <<values[CHOOSE i \in hits : \A j \in hits : i <= j]>>

\* getUser(id)
getUser(id) == FindFirst(users, {i \in 1..Len(users) : users[i].id = id})

\* A lookup that finds nobody.
getUserByUsername_FindsNobody(username) == <<>>

\* getUserByUsername(username)
getUserByUsername(username) ==
  FindFirst(users, {i \in 1..Len(users) : users[i].username = username})

\* createUser(insertUser): the stored user; its id is fresh.
createUser(username, password, isOnline) ==
  [id |-> Len(users) + 1, username |-> username, password |-> password,
   isOnline |-> isOnline]

\* updateUserOnlineStatus(id, isOnline): the users with the flag of user id
\* overwritten; nothing changes when no user has the id.
updateUserOnlineStatus(id, isOnline) ==
  [i \in 1..Len(users) |->
     IF users[i].id = id THEN [users[i] EXCEPT !.isOnline = isOnline] ELSE users[i]]

\* createChatRoom(insertRoom)
createChatRoom == [id |-> Len(chatRooms) + 1]

\* addUserToRoom storing the first user and the first room whatever it is given.
addUserToRoom_FirstPair(userId, roomId) ==
  [id |-> Len(roomMembers) + 1, userId |-> 1, roomId |-> 1]

\* addUserToRoom(insertRoomMember): no uniqueness check of (userId, roomId).
addUserToRoom(userId, roomId) ==
  [id |-> Len(roomMembers) + 1, userId |-> userId, roomId |-> roomId]

\* isUserInRoom(userId, roomId)
isUserInRoom(userId, roomId) ==
  \E i \in 1..Len(roomMembers) :
    roomMembers[i].userId = userId /\ roomMembers[i].roomId = roomId


\* createMessage(insertMessage): the stored message; id fresh, status "sent".
createMessage(content, senderId, roomId) ==
  [id |-> Len(messages) + 1, content |-> content, senderId |-> senderId,
   roomId |-> roomId, timestamp |-> now, status |-> "sent"]

\* An update that changes nothing.
updateMessageStatus_NoOp(stored, messageId, status) == stored

\* An update that marks the message as read whatever status it is given.
updateMessageStatus_Read(stored, messageId, status) ==
  [i \in 1..Len(stored) |->
     IF stored[i].id = messageId THEN [stored[i] EXCEPT !.status = "read"]
     ELSE stored[i]]

\* An update that overwrites the status of every message.
updateMessageStatus_All(stored, messageId, status) ==
  [i \in 1..Len(stored) |-> [stored[i] EXCEPT !.status = status]]

\* updateMessageStatus(messageId, status) on the messages map `stored`: the
\* map afterwards; an id that is not stored changes nothing.
updateMessageStatus(stored, messageId, status) ==
  [i \in 1..Len(stored) |->
     IF stored[i].id = messageId THEN [stored[i] EXCEPT !.status = status]
     ELSE stored[i]]

\* values.filter(keep), `keep` being the set of positions kept.
RECURSIVE FilterSeq(_, _, _)
FilterSeq(values, keep, i) ==
  IF i > Len(values) THEN <<>>
  ELSE (IF i \in keep THEN <<values[i]>> ELSE <<>>) \o FilterSeq(values, keep, i + 1)

\* One step of the (stable) sort by ascending timestamp: m goes behind every
\* element whose timestamp is not later than its own.
RECURSIVE InsertByTimestamp(_, _)
InsertByTimestamp(sorted, m) ==
  IF sorted = <<>> THEN <<m>>
  ELSE IF Head(sorted).timestamp <= m.timestamp
       THEN <<Head(sorted)>> \o InsertByTimestamp(Tail(sorted), m)
       ELSE <<m>> \o sorted

\* .sort((a, b) => a.timestamp - b.timestamp)
RECURSIVE SortByTimestamp(_)
SortByTimestamp(ms) ==
  IF ms = <<>> THEN <<>>
  ELSE InsertByTimestamp(SortByTimestamp(SubSeq(ms, 1, Len(ms) - 1)), ms[Len(ms)])

\* The page size of getMessages when the request names none.
DefaultLimit == 50

\* .slice(offset, offset + limit)
Slice(values, offset, limit) ==
  SubSeq(values, offset + 1, IF Len(values) < offset + limit THEN Len(values) ELSE offset + limit)

\* A page that starts at the second message whatever the offset.
getMessages_SkipsFirst(roomId, limit, offset) ==
  LET ofRoom == FilterSeq(messages, {i \in 1..Len(messages) : messages[i].roomId = roomId}, 1)
      page == Slice(SortByTimestamp(ofRoom), offset + 1, limit)
  IN  FilterSeq(page, {i \in 1..Len(page) : getUser(page[i].senderId) /= <<>>}, 1)

\* getMessages(roomId, limit, offset): the room's messages, oldest first, one
\* page of them, those whose sender is not stored left out.
getMessages(roomId, limit, offset) ==
  LET ofRoom == FilterSeq(messages, {i \in 1..Len(messages) : messages[i].roomId = roomId}, 1)
      page == Slice(SortByTimestamp(ofRoom), offset, limit)
  IN  FilterSeq(page, {i \in 1..Len(page) : getUser(page[i].senderId) /= <<>>}, 1)

\* The delay of the auto-clear timer of updateTypingStatus and the age at
\* which getTypingUsers stops counting a status, in seconds.
TypingClearDelay == 3
TypingTimeout == 5

\* The positions of the typing statuses stored under the key `userId-roomId`.
TypingKey(userId, roomId) ==
  {i \in 1..Len(typingStatuses) :
     typingStatuses[i].userId = userId /\ typingStatuses[i].roomId = roomId}

\* updateTypingStatus(insertTyping): the typingStatuses map afterwards (a key
\* that is set again keeps its place in the map).
updateTypingStatus(userId, roomId, isTyping) ==
  LET typingStatus ==
        [userId |-> userId, roomId |-> roomId, isTyping |-> isTyping, lastUpdate |-> now]
  IN  IF TypingKey(userId, roomId) = {} THEN Append(typingStatuses, typingStatus)
      ELSE [i \in 1..Len(typingStatuses) |->
              IF i \in TypingKey(userId, roomId) THEN typingStatus ELSE typingStatuses[i]]

\* A timer armed for the five seconds of getTypingUsers.
TypingTimer_Late(userId, roomId) ==
  [userId |-> userId, roomId |-> roomId, due |-> now + TypingTimeout]

\* The timer updateTypingStatus arms, whatever isTyping is.
TypingTimer(userId, roomId) ==
  [userId |-> userId, roomId |-> roomId, due |-> now + TypingClearDelay]

\* A clear that spares a status written again since its timer was armed.
clearTypingStatus_IfStale(userId, roomId) ==
  FilterSeq(typingStatuses,
            {i \in 1..Len(typingStatuses) :
               \/ i \notin TypingKey(userId, roomId)
               \/ now - typingStatuses[i].lastUpdate < TypingClearDelay}, 1)

\* A clear that keeps the status.
clearTypingStatus_Keeps(userId, roomId) == typingStatuses

\* clearTypingStatus(userId, roomId): the typingStatuses map afterwards.
clearTypingStatus(userId, roomId) ==
  FilterSeq(typingStatuses, (1..Len(typingStatuses)) \ TypingKey(userId, roomId), 1)

\* A read that counts a status whatever its age.
getTypingUsers_AnyAge(roomId) ==
  LET typing == FilterSeq(typingStatuses,
                   {i \in 1..Len(typingStatuses) :
                      typingStatuses[i].roomId = roomId /\ typingStatuses[i].isTyping}, 1)
      found == FilterSeq(typing, {i \in 1..Len(typing) : getUser(typing[i].userId) /= <<>>}, 1)
  IN  [i \in 1..Len(found) |-> found[i].userId]

\* getTypingUsers(roomId): the ids of the users returned, in map order.
getTypingUsers(roomId) ==
  LET typing == FilterSeq(typingStatuses,
                   {i \in 1..Len(typingStatuses) :
                      /\ typingStatuses[i].roomId = roomId
                      /\ typingStatuses[i].isTyping
                      /\ now - typingStatuses[i].lastUpdate < TypingTimeout}, 1)
      found == FilterSeq(typing, {i \in 1..Len(typing) : getUser(typing[i].userId) /= <<>>}, 1)
  IN  [i \in 1..Len(found) |-> found[i].userId]

\* getRoomMembers(roomId): the ids of the users returned, one per membership
\* row of the room whose user is stored.
getRoomMembers(roomId) ==
  LET rows == FilterSeq(roomMembers,
                 {i \in 1..Len(roomMembers) : roomMembers[i].roomId = roomId}, 1)
      found == FilterSeq(rows, {i \in 1..Len(rows) : getUser(rows[i].userId) /= <<>>}, 1)
  IN  [i \in 1..Len(found) |-> found[i].userId]

\* getChatRoom(id)
getChatRoom(id) == FindFirst(chatRooms, {i \in 1..Len(chatRooms) : chatRooms[i].id = id})

\* The rooms of getChatRoomsForUser, one for each membership row of the user.
MemberRooms_PerRow(userId) ==
  LET rows == FilterSeq(roomMembers,
                 {i \in 1..Len(roomMembers) : roomMembers[i].userId = userId}, 1)
      known == FilterSeq(rows, {i \in 1..Len(rows) : getChatRoom(rows[i].roomId) /= <<>>}, 1)
  IN  [i \in 1..Len(known) |-> getChatRoom(known[i].roomId)[1]]

\* The first two statements of getChatRoomsForUser: the room ids of the
\* user's membership rows, then the rooms, in the order of the room map,
\* whose id is among them.
MemberRooms(userId) ==
  LET userRooms == {roomMembers[i].roomId :
                      i \in {j \in 1..Len(roomMembers) : roomMembers[j].userId = userId}}
  IN  FilterSeq(chatRooms, {i \in 1..Len(chatRooms) : chatRooms[i].id \in userRooms}, 1)

\* .sort((a, b) => b.timestamp - a.timestamp), which keeps the order of equal
\* timestamps.
RECURSIVE InsertByTimestampDesc(_, _)
InsertByTimestampDesc(sorted, m) ==
  IF sorted = <<>> THEN <<m>>
  ELSE IF Head(sorted).timestamp >= m.timestamp
       THEN <<Head(sorted)>> \o InsertByTimestampDesc(Tail(sorted), m)
       ELSE <<m>> \o sorted

RECURSIVE SortByTimestampDesc(_)
SortByTimestampDesc(ms) ==
  IF ms = <<>> THEN <<>>
  ELSE InsertByTimestampDesc(SortByTimestampDesc(SubSeq(ms, 1, Len(ms) - 1)), ms[Len(ms)])

\* lastMessage of a room: the first of its messages sorted newest first,
\* when its sender is a stored user; otherwise none.
LastMessage(roomId) ==
  LET roomMessages == SortByTimestampDesc(
        FilterSeq(messages, {i \in 1..Len(messages) : messages[i].roomId = roomId}, 1))
  IN  IF roomMessages /= <<>> /\ getUser(roomMessages[1].senderId) /= <<>>
      THEN <<roomMessages[1]>>
      ELSE <<>>

\* The room with its details, as pushed on roomsWithDetails.
RoomWithDetails(room) ==
  LET members == getRoomMembers(room.id)
  IN  [id |-> room.id, members |-> members, lastMessage |-> LastMessage(room.id),
       unreadCount |-> 0,
       onlineCount |-> Cardinality({i \in 1..Len(members) : getUser(members[i])[1].isOnline})]

\* a.lastMessage?.timestamp ? new Date(a.lastMessage.timestamp).getTime() : 0
LastMessageTime(room) ==
  IF room.lastMessage /= <<>> /\ room.lastMessage[1].timestamp /= 0
  THEN room.lastMessage[1].timestamp
  ELSE 0

\* A sort that leaves the rooms as they are.
SortByLastMessage_Unsorted(rooms) == rooms

RECURSIVE InsertByLastMessage(_, _)
InsertByLastMessage(sorted, room) ==
  IF sorted = <<>> THEN <<room>>
  ELSE IF LastMessageTime(Head(sorted)) >= LastMessageTime(room)
       THEN <<Head(sorted)>> \o InsertByLastMessage(Tail(sorted), room)
       ELSE <<room>> \o sorted

RECURSIVE SortByLastMessageFrom(_, _)
SortByLastMessageFrom(rooms, n) ==
  IF n = 0 THEN <<>>
  ELSE InsertByLastMessage(SortByLastMessageFrom(rooms, n - 1), rooms[n])

\* roomsWithDetails.sort((a, b) => bTime - aTime)
SortByLastMessage(rooms) == SortByLastMessageFrom(rooms, Len(rooms))

\* getChatRoomsForUser(userId)
getChatRoomsForUser(userId) ==
  LET rooms == MemberRooms(userId)
  IN  SortByLastMessage([i \in 1..Len(rooms) |-> RoomWithDetails(rooms[i])])

\* The empty store of the MemStorage constructor and the empty session table.
StoreInit ==
  /\ users = <<>>
  /\ chatRooms = <<>>
  /\ roomMembers = <<>>
  /\ messages = <<>>
  /\ deliveryTimers = {}
  /\ userSessions = << >>
  /\ sessionCount = 0
  /\ now = 1
  /\ typingStatuses = <<>>
  /\ typingTimers = <<>>

\* ------------------------------------------------- POST /api/auth/signup

\* Signup requests the model follows.
MaxSignups == 3
SignupReqs == 1..MaxSignups

\* The shortest password signup accepts.
MinPasswordLength == 6

\* Request bodies: the username ("" when missing), whether displayName is
\* present, password ("" when missing), and whether confirmPassword equals
\* password.
Usernames == {"", "current_user", "bob"}
Passwords == {"", "12345", "123456"}
SignupBodies ==
  [username : Usernames, hasDisplayName : BOOLEAN,
   password : Passwords,
   confirmMatches : BOOLEAN]

\* The three early returns with status 400.
SignupBodyValid(body) ==
  /\ body.username /= "" /\ body.hasDisplayName /\ body.password /= ""
  /\ body.confirmMatches
  /\ ~ (Len(body.password) < MinPasswordLength)

\* Numbers of users, sessions, rooms and membership rows.
Cardinalities ==
  [users |-> Len(users), sessions |-> Cardinality(DOMAIN userSessions),
   rooms |-> Len(chatRooms), members |-> Len(roomMembers)]

NoCounts == [users |-> 0, sessions |-> 0, rooms |-> 0, members |-> 0]

IdleSignup ==
  [pc |-> "idle", username |-> "", password |-> "", valid |-> FALSE, stored |-> FALSE,
   existingUser |-> <<>>, newUser |-> NoId, welcomeRoom |-> NoId, status |-> 0,
   before |-> NoCounts, after |-> NoCounts]

\* The handler up to its first await: validation, then the call of
\* getUserByUsername, whose body runs at the call.  `stored` and `before`
\* record the store as the request found it.
SignupBegin(q, body) ==
  /\ signup[q].pc = "idle"
  /\ signup' = [signup EXCEPT ![q] =
       IF ~ SignupBodyValid(body)
       THEN [@ EXCEPT !.pc = "done", !.username = body.username, !.status = 400,
                      !.before = Cardinalities, !.after = Cardinalities,
                      !.stored = \E i \in 1..Len(users) : users[i].username = body.username]
       ELSE [@ EXCEPT !.pc = "lookup", !.username = body.username,
                      !.password = body.password, !.valid = TRUE,
                      !.existingUser = getUserByUsername(body.username),
                      !.before = Cardinalities,
                      !.stored = \E i \in 1..Len(users) : users[i].username = body.username]]
  /\ UNCHANGED storeVars

\* Resumed after `await getUserByUsername`: 409 when a user was found,
\* otherwise the call of createUser.
SignupAfterLookup(q) ==
  /\ signup[q].pc = "lookup"
  /\ IF signup[q].existingUser /= <<>>
     THEN /\ signup' = [signup EXCEPT ![q] =
                 [@ EXCEPT !.pc = "done", !.status = 409, !.after = Cardinalities]]
          /\ UNCHANGED storeVars
     ELSE LET newUser == createUser(signup[q].username, signup[q].password, TRUE)
          IN  /\ users' = Append(users, newUser)
              /\ signup' = [signup EXCEPT ![q] =
                     [@ EXCEPT !.pc = "created", !.newUser = newUser.id]]
              /\ UNCHANGED <<chatRooms, roomMembers, messages, deliveryTimers,
                             userSessions, sessionCount, now, typingStatuses,
                             typingTimers>>

\* Resumed after `await createUser`: the session, then the call of createChatRoom.
SignupAfterCreate(q) ==
  /\ signup[q].pc = "created"
  /\ sessionCount' = sessionCount + 1
  /\ userSessions' = userSessions @@ ((sessionCount + 1) :> signup[q].newUser)
  /\ chatRooms' = Append(chatRooms, createChatRoom)
  /\ signup' = [signup EXCEPT ![q] =
         [@ EXCEPT !.pc = "room", !.welcomeRoom = createChatRoom.id]]
  /\ UNCHANGED <<users, roomMembers, messages, deliveryTimers, now, typingStatuses,
                 typingTimers>>

\* Resumed after `await createChatRoom`: the call of addUserToRoom.
SignupAfterRoom(q) ==
  /\ signup[q].pc = "room"
  /\ roomMembers' = Append(roomMembers,
                           addUserToRoom(signup[q].newUser, signup[q].welcomeRoom))
  /\ signup' = [signup EXCEPT ![q] = [@ EXCEPT !.pc = "member"]]
  /\ UNCHANGED <<users, chatRooms, messages, deliveryTimers, userSessions, sessionCount,
                 now, typingStatuses, typingTimers>>

\* Resumed after `await addUserToRoom`: res.json({...newUser, sessionId}).
SignupRespond(q) ==
  /\ signup[q].pc = "member"
  /\ signup' = [signup EXCEPT ![q] =
         [@ EXCEPT !.pc = "done", !.status = 200, !.after = Cardinalities]]
  /\ UNCHANGED storeVars

SignupInit ==
  /\ signup = [q \in SignupReqs |-> IdleSignup]
  /\ bearer = NoId

\* No signup request is suspended at an await.
NoSignupInFlight == \A q \in SignupReqs : signup[q].pc \in {"idle", "done"}

\* ------------------------------------------------ the message endpoints

\* The text of a message; NoContent is a request body without a string `content`.
Contents == {"hi"}
NoContent == "<none>"

\* The user every room endpoint acts as: user.id of
\* getUserByUsername("current_user"), NoId when there is none.
ActingUser ==
  LET user == getUserByUsername("current_user")
  IN  IF user = <<>> THEN NoId ELSE user[1].id

\* The two checks every room endpoint starts with: 404 without the user,
\* 403 without a membership row of the user in the room, 200 otherwise.
RoomAccess(roomId) ==
  IF getUserByUsername("current_user") = <<>> THEN 404
  ELSE IF ~ isUserInRoom(ActingUser, roomId) THEN 403
  ELSE 200

\* An HTTP handler calls no broadcast and touches no connection.
NoPublish ==
  /\ published' = <<>>
  /\ sent' = NoSends
  /\ UNCHANGED <<roomClients, currentRoomId, currentUserId, readyState>>

\* POST /api/rooms/:roomId/messages: the status of the response.  The store
\* keeps the message even when createMessage throws for want of its sender.
SendMessageStatus(roomId, content) ==
  LET user == getUserByUsername("current_user")
  IN  IF user = <<>> THEN 404
      ELSE IF ~ isUserInRoom(user[1].id, roomId) THEN 403
      ELSE IF content = NoContent THEN 400
      ELSE IF getUser(user[1].id) = <<>> THEN 500
      ELSE 200

\* POST /api/rooms/:roomId/messages.  The handler calls no broadcast.
PostMessage(roomId, content) ==
  LET status == SendMessageStatus(roomId, content)
      message == createMessage(content, getUserByUsername("current_user")[1].id, roomId)
  IN  /\ IF status \in {200, 500}
         THEN /\ messages' = Append(messages, message)
              /\ deliveryTimers' = IF status = 200 THEN deliveryTimers \cup {message.id}
                                   ELSE deliveryTimers
              /\ lastOp' = [type |-> "send_message", ws |-> NoConn, roomId |-> roomId,
                            status |-> status, actor |-> ActingUser, message |-> message]
         ELSE /\ UNCHANGED <<messages, deliveryTimers>>
              /\ lastOp' = [type |-> "send_message", ws |-> NoConn, roomId |-> roomId,
                            status |-> status, actor |-> ActingUser]
      /\ published' = <<>>
      /\ sent' = NoSends
      /\ UNCHANGED <<roomClients, currentRoomId, currentUserId, readyState>>
      /\ UNCHANGED <<users, chatRooms, roomMembers, userSessions, sessionCount, now,
                     typingStatuses, typingTimers>>

\* GET /api/rooms/:roomId/messages without query parameters: the response.
ListMessages(roomId) ==
  LET user == getUserByUsername("current_user")
  IN  IF user = <<>> THEN [status |-> 404, body |-> <<>>]
      ELSE IF ~ isUserInRoom(user[1].id, roomId) THEN [status |-> 403, body |-> <<>>]
      ELSE [status |-> 200, body |-> getMessages(roomId, DefaultLimit, 0)]

\* GET /api/rooms: the rooms of the response (none with its 404).
ListRooms ==
  LET user == getUserByUsername("current_user")
  IN  IF user = <<>> THEN <<>> ELSE getChatRoomsForUser(user[1].id)

\* GET /api/rooms/:roomId/messages as a step of the server.
ListMessagesRequest(roomId) ==
  /\ lastOp' = [type |-> "list_messages", ws |-> NoConn, roomId |-> roomId,
                status |-> ListMessages(roomId).status, actor |-> ActingUser,
                body |-> ListMessages(roomId).body]
  /\ NoPublish
  /\ UNCHANGED storeVars

\* The isTyping of a set-typing body: a boolean, absent, or not a boolean.
TypingInputs == {"true", "false", "absent", "invalid"}

\* POST /api/rooms/:roomId/typing: `req.body.isTyping ?? true` parsed as a
\* boolean, then updateTypingStatus, which arms its clear timer.
SetTypingRequest(roomId, isTyping) ==
  LET status == IF RoomAccess(roomId) /= 200 THEN RoomAccess(roomId)
                ELSE IF isTyping = "invalid" THEN 400 ELSE 200
  IN  /\ IF status = 200
         THEN /\ typingStatuses' = updateTypingStatus(ActingUser, roomId, isTyping /= "false")
              /\ typingTimers' = Append(typingTimers, TypingTimer(ActingUser, roomId))
         ELSE UNCHANGED <<typingStatuses, typingTimers>>
      /\ lastOp' = [type |-> "set_typing", ws |-> NoConn, roomId |-> roomId,
                    status |-> status, actor |-> ActingUser, isTyping |-> isTyping]
      /\ NoPublish
      /\ UNCHANGED <<users, chatRooms, roomMembers, messages, deliveryTimers, userSessions,
                     sessionCount, now>>

\* GET /api/rooms/:roomId/typing: the typing users but the acting one.
ListTyping(roomId) ==
  IF RoomAccess(roomId) /= 200 THEN [status |-> RoomAccess(roomId), body |-> <<>>]
  ELSE [status |-> 200,
        body |-> LET typing == getTypingUsers(roomId)
                 IN  FilterSeq(typing, {i \in 1..Len(typing) : typing[i] /= ActingUser}, 1)]

ListTypingRequest(roomId) ==
  /\ lastOp' = [type |-> "list_typing", ws |-> NoConn, roomId |-> roomId,
                status |-> ListTyping(roomId).status, actor |-> ActingUser,
                body |-> ListTyping(roomId).body]
  /\ NoPublish
  /\ UNCHANGED storeVars

\* ------------------------------------------------------- Auth endpoints

\* The store variables the auth handlers leave alone.
authUnchanged ==
  <<chatRooms, roomMembers, messages, deliveryTimers, now, typingStatuses,
    typingTimers>>

\* POST /api/auth/login: 400 for a missing field, 401 for an unknown user or
\* a wrong password; otherwise a fresh session id is mapped to the user, the
\* user is marked online and the response carries the session id.  The user
\* looked up before the await is the user after it: users are never removed
\* and passwords never change.
Login(username, password) ==
  LET user == getUserByUsername(username)
      sessionId == sessionCount + 1
  IN  /\ NoPublish
      /\ UNCHANGED authUnchanged
      /\ IF username = "" \/ password = ""
         THEN /\ lastOp' = [type |-> "login", ws |-> NoConn, status |-> 400,
                            user |-> NoId, sessionId |-> NoId]
              /\ UNCHANGED <<users, userSessions, sessionCount>>
         ELSE IF user = <<>> \/ user[1].password /= password
         THEN /\ lastOp' = [type |-> "login", ws |-> NoConn, status |-> 401,
                            user |-> NoId, sessionId |-> NoId]
              /\ UNCHANGED <<users, userSessions, sessionCount>>
         ELSE /\ sessionCount' = sessionId
              /\ userSessions' = userSessions @@ (sessionId :> user[1].id)
              /\ users' = updateUserOnlineStatus(user[1].id, TRUE)
              /\ lastOp' = [type |-> "login", ws |-> NoConn, status |-> 200,
                            user |-> user[1].id, sessionId |-> sessionId]

\* A logout that answers success and keeps the session.
Logout_KeepsSession(sessionId) ==
  /\ NoPublish
  /\ UNCHANGED authUnchanged
  /\ UNCHANGED <<sessionCount, users, userSessions>>
  /\ lastOp' = [type |-> "logout", ws |-> NoConn, status |-> 200,
                user |-> NoId, sessionId |-> sessionId]

\* POST /api/auth/logout: a session id the table holds is deleted and its
\* user marked offline; the answer is success whatever the body.
Logout(sessionId) ==
  /\ NoPublish
  /\ UNCHANGED authUnchanged
  /\ UNCHANGED sessionCount
  /\ lastOp' = [type |-> "logout", ws |-> NoConn, status |-> 200,
                user |-> NoId, sessionId |-> sessionId]
  /\ IF Truthy(sessionId) /\ sessionId \in DOMAIN userSessions
     THEN /\ users' = IF Truthy(userSessions[sessionId])
                      THEN updateUserOnlineStatus(userSessions[sessionId], FALSE)
                      ELSE users
          /\ userSessions' = [t \in DOMAIN userSessions \ {sessionId} |-> userSessions[t]]
     ELSE UNCHANGED <<users, userSessions>>

\* GET /api/auth/me: 401 without a session id the table holds, 401 (and the
\* session deleted) when the session's user is gone, otherwise the user.
Me(sessionId) ==
  /\ NoPublish
  /\ UNCHANGED authUnchanged
  /\ UNCHANGED <<users, sessionCount>>
  /\ IF ~ Truthy(sessionId) \/ sessionId \notin DOMAIN userSessions
     THEN /\ lastOp' = [type |-> "me", ws |-> NoConn, status |-> 401,
                        user |-> NoId, sessionId |-> sessionId]
          /\ UNCHANGED userSessions
     ELSE IF ~ Truthy(userSessions[sessionId])
     THEN /\ lastOp' = [type |-> "me", ws |-> NoConn, status |-> 401,
                        user |-> NoId, sessionId |-> sessionId]
          /\ UNCHANGED userSessions
     ELSE IF getUser(userSessions[sessionId]) = <<>>
     THEN /\ lastOp' = [type |-> "me", ws |-> NoConn, status |-> 401,
                        user |-> NoId, sessionId |-> sessionId]
          /\ userSessions' = [t \in DOMAIN userSessions \ {sessionId} |-> userSessions[t]]
     ELSE /\ lastOp' = [type |-> "me", ws |-> NoConn, status |-> 200,
                        user |-> getUser(userSessions[sessionId])[1].id,
                        sessionId |-> sessionId]
          /\ UNCHANGED userSessions

\* The callback of setTimeout(..., 1000) of the send-message handler, which
\* runs no earlier than one second after the message was created.
DeliveryDelay == 1
DeliveryTimerFires(messageId) ==
  /\ messageId \in deliveryTimers
  /\ \E i \in 1..Len(messages) :
       messages[i].id = messageId /\ now >= messages[i].timestamp + DeliveryDelay
  /\ messages' = updateMessageStatus(messages, messageId, "delivered")
  /\ deliveryTimers' = deliveryTimers \ {messageId}
  /\ lastOp' = [type |-> "delivery_timer", ws |-> NoConn, messageId |-> messageId]
  /\ NoPublish
  /\ UNCHANGED <<users, chatRooms, roomMembers, userSessions, sessionCount, now,
                 typingStatuses, typingTimers>>

\* The callback of setTimeout(..., 3000) of updateTypingStatus, which runs
\* no earlier than three seconds after the call: clearTypingStatus.
TypingTimerFires(i) ==
  /\ i \in 1..Len(typingTimers)
  /\ now >= typingTimers[i].due
  /\ typingStatuses' = clearTypingStatus(typingTimers[i].userId, typingTimers[i].roomId)
  /\ typingTimers' = FilterSeq(typingTimers, (1..Len(typingTimers)) \ {i}, 1)
  /\ lastOp' = [type |-> "typing_timer", ws |-> NoConn, userId |-> typingTimers[i].userId,
                roomId |-> typingTimers[i].roomId]
  /\ NoPublish
  /\ UNCHANGED <<users, chatRooms, roomMembers, messages, deliveryTimers, userSessions,
                 sessionCount, now>>

\* The clock advances by a second.
Tick ==
  /\ now' = now + 1
  /\ lastOp' = [type |-> "tick", ws |-> NoConn]
  /\ NoPublish
  /\ UNCHANGED <<users, chatRooms, roomMembers, messages, deliveryTimers, userSessions,
                 sessionCount, typingStatuses, typingTimers>>

\* ------------------------------------------------------------ the client

\* The browsers running the chat page.
Clients == {"A", "B"}
NoClient == "nobody"

\* The order in which new sockets take their connection.
ConnOrder == <<"A", "B", "C">>
UnusedConns == {i \in 1..Len(ConnOrder) : socketOwner[ConnOrder[i]] = NoClient}
FreshConn == ConnOrder[CHOOSE i \in UnusedConns : \A j \in UnusedConns : i <= j]

IdleQuery == [phase |-> "idle", status |-> 0, data |-> <<>>]

\* queryClient.invalidateQueries on the list-messages key: the query is
\* fetched again, a response still in flight is dropped.
InvalidateQuery == [phase |-> "fetching", status |-> 0, data |-> <<>>]

\* The updater of handleNewMessage keeping an entry per (id, content).
handleNewMessage_ByContent(prev, message) ==
  IF \E i \in 1..Len(prev) : prev[i].content = message.content THEN prev
  ELSE Append(prev, message)

\* The updater of handleNewMessage: skip a message whose id is present.
handleNewMessage(prev, message) ==
  IF \E i \in 1..Len(prev) : prev[i].id = message.id THEN prev
  ELSE Append(prev, message)

\* "Initialize messages from API (only once)": the effect on [fetchedMessages].
InitializeMessages(local, fetched) ==
  IF Len(fetched) > 0 /\ Len(local) = 0 THEN fetched ELSE local

\* A closed socket that never reached the server and that no ws.current
\* names any more is garbage: its connection can carry a new socket.
Garbage(c, current) ==
  /\ c /= NoConn
  /\ c /= current
  /\ socketState[c] = "CLOSED"
  /\ readyState[c] = "NONE"

\* connect() of use-websocket.
connect(k) ==
  IF wsCurrent[k] /= NoConn /\ socketState[wsCurrent[k]] = "OPEN"
  THEN UNCHANGED <<wsCurrent, socketOwner, socketState, connectionStatus>>
  ELSE /\ UnusedConns /= {}
       /\ wsCurrent' = [wsCurrent EXCEPT ![k] = FreshConn]
       /\ socketOwner' = [c \in Conns |->
            IF c = FreshConn THEN k
            ELSE IF Garbage(c, FreshConn) /\ c = wsCurrent[k] THEN NoClient
            ELSE socketOwner[c]]
       /\ socketState' = [c \in Conns |->
            IF c = FreshConn THEN "CONNECTING"
            ELSE IF Garbage(c, FreshConn) /\ c = wsCurrent[k] THEN "NONE"
            ELSE socketState[c]]
       /\ connectionStatus' = [connectionStatus EXCEPT ![k] = "connecting"]

\* ChatArea mounts for a room of the room list: empty local list, the
\* list-messages query starts, and the connect effect of use-websocket runs.
Mount(k, room) ==
  /\ selectedRoom[k] = NoId
  /\ room \in {ListRooms[i].id : i \in 1..Len(ListRooms)}
  /\ selectedRoom' = [selectedRoom EXCEPT ![k] = room]
  /\ chatMessages' = [chatMessages EXCEPT ![k] = <<>>]
  /\ messagesQuery' = [messagesQuery EXCEPT ![k] = InvalidateQuery]
  /\ IF Truthy(room) /\ Truthy(clientUser[k])
     THEN connect(k)
     ELSE UNCHANGED <<wsCurrent, socketOwner, socketState, connectionStatus>>
  /\ UNCHANGED <<up, wire, clientUser, sendMutation, reconnectAttempts, reconnectTimers,
                    realtimeTypingUsers, inputIsTyping>>

\* ws.onopen of socket c: the join_room frame goes out through ws.current.
ClientOnOpen(c) ==
  LET k == socketOwner[c]
      target == wsCurrent[k]
      frame == [type |-> "join_room", roomId |-> selectedRoom[k], userId |-> clientUser[k]]
  IN  /\ socketState[c] = "CONNECTING"
      /\ readyState[c] /= "NONE"
      /\ socketState' = [socketState EXCEPT ![c] = "OPEN"]
      /\ connectionStatus' = [connectionStatus EXCEPT ![k] = "connected"]
      /\ reconnectAttempts' = [reconnectAttempts EXCEPT ![k] = 0]
      /\ up' = IF /\ Truthy(selectedRoom[k]) /\ Truthy(clientUser[k])
                  /\ target /= NoConn /\ socketState'[target] = "OPEN"
               THEN [up EXCEPT ![target] = Append(@, frame)]
               ELSE up
      /\ UNCHANGED <<wire, socketOwner, selectedRoom, clientUser, wsCurrent,
                     chatMessages, messagesQuery, sendMutation, reconnectTimers,
                    realtimeTypingUsers, inputIsTyping>>

maxReconnectAttempts == 5

\* Math.pow(2, n).
RECURSIVE Pow2(_)
Pow2(n) == IF n = 0 THEN 1 ELSE 2 * Pow2(n - 1)

\* The delay of the reconnect timeout, in seconds, as onclose computes it.
ReconnectDelay(attempts) == Pow2(attempts)

NotRef(timer) == ~timer.ref
Unref(timers) == [i \in 1..Len(timers) |-> [timers[i] EXCEPT !.ref = FALSE]]

\* clearTimeout(reconnectTimeoutRef.current): the timeout the ref names, if
\* it is still pending, is cancelled; the others stay.
clearTimeout(timers) == SelectSeq(timers, NotRef)

\* ws.onclose of socket c, for whatever reason it closed (a failed attempt,
\* a lost connection, or close() called on it by disconnect): a reconnect is
\* scheduled while the attempts counter is below maxReconnectAttempts.
ClientOnClose(c) ==
  LET k == socketOwner[c]
      gone == c /= wsCurrent[k] /\ readyState[c] = "NONE"
  IN  /\ socketState[c] \in {"CONNECTING", "OPEN", "CLOSING"}
      /\ socketState' = [socketState EXCEPT ![c] = IF gone THEN "NONE" ELSE "CLOSED"]
      /\ socketOwner' = [socketOwner EXCEPT ![c] = IF gone THEN NoClient ELSE k]
      /\ connectionStatus' = [connectionStatus EXCEPT ![k] = "disconnected"]
      /\ reconnectTimers' =
           IF reconnectAttempts[k] < maxReconnectAttempts
           THEN [reconnectTimers EXCEPT ![k] =
                  Append(Unref(@), [due |-> now + ReconnectDelay(reconnectAttempts[k]),
                                    ref |-> TRUE])]
           ELSE reconnectTimers
      /\ UNCHANGED <<up, wire, selectedRoom, clientUser, wsCurrent, chatMessages,
                     messagesQuery, sendMutation, reconnectAttempts,
                    realtimeTypingUsers, inputIsTyping>>

\* The reconnect timeout i of client k fires: the counter goes up and
\* connect() runs.
ReconnectTimerFires(k, i) ==
  /\ i \in 1..Len(reconnectTimers[k])
  /\ reconnectTimers[k][i].due <= now
  /\ reconnectAttempts' = [reconnectAttempts EXCEPT ![k] = @ + 1]
  /\ reconnectTimers' = [reconnectTimers EXCEPT ![k] =
       SubSeq(@, 1, i - 1) \o SubSeq(@, i + 1, Len(@))]
  /\ connect(k)
  /\ UNCHANGED <<up, wire, selectedRoom, clientUser, chatMessages, messagesQuery,
                 sendMutation,
                    realtimeTypingUsers, inputIsTyping>>

\* The connect effect of use-websocket runs again in the mounted component
\* because a dependency changed (currentUser is a new object after
\* /api/auth/me is fetched: the login response carries sessionId, the
\* /api/auth/me response does not): its cleanup, disconnect(), clears the
\* timeout the ref names and closes ws.current, whose onclose stays attached;
\* then connect() runs with ws.current null.
DisconnectThenConnect(k) ==
  LET old == wsCurrent[k]
      closing == old /= NoConn /\ socketState[old] \in {"CONNECTING", "OPEN"}
      dropped == Garbage(old, NoConn)
  IN  /\ reconnectTimers' = [reconnectTimers EXCEPT ![k] = clearTimeout(@)]
      /\ UnusedConns /= {}
      /\ wsCurrent' = [wsCurrent EXCEPT ![k] = FreshConn]
      /\ socketOwner' = [c \in Conns |->
           IF c = FreshConn THEN k
           ELSE IF c = old /\ dropped THEN NoClient
           ELSE socketOwner[c]]
      /\ socketState' = [c \in Conns |->
           IF c = FreshConn THEN "CONNECTING"
           ELSE IF c = old /\ closing THEN "CLOSING"
           ELSE IF c = old /\ dropped THEN "NONE"
           ELSE socketState[c]]
      /\ connectionStatus' = [connectionStatus EXCEPT ![k] = "connecting"]

ConnectEffect(k) ==
  /\ Truthy(selectedRoom[k])
  /\ Truthy(clientUser[k])
  /\ DisconnectThenConnect(k)
  /\ UNCHANGED <<up, wire, selectedRoom, clientUser, chatMessages, messagesQuery,
                 sendMutation, reconnectAttempts, realtimeTypingUsers, inputIsTyping>>

\* Another room of the sidebar is selected: the mounted ChatArea gets a new
\* `room` prop.  Its state (messages, realtimeTypingUsers) stays, the
\* list-messages query of the new key starts, and the connect effect runs
\* again for the new roomId; the join effect finds ws.current not open.
SelectRoom(k, room) ==
  /\ Truthy(selectedRoom[k])
  /\ room /= selectedRoom[k]
  /\ room \in {ListRooms[i].id : i \in 1..Len(ListRooms)}
  /\ Truthy(room)
  /\ Truthy(clientUser[k])
  /\ selectedRoom' = [selectedRoom EXCEPT ![k] = room]
  /\ messagesQuery' = [messagesQuery EXCEPT ![k] = InvalidateQuery]
  /\ DisconnectThenConnect(k)
  /\ UNCHANGED <<up, wire, clientUser, chatMessages, sendMutation, reconnectAttempts,
                 realtimeTypingUsers, inputIsTyping>>

\* handleTypingStatus of ChatArea on its list `prev`: the user is looked up
\* among the members of the room details; a user that is found and is not
\* the current user is added by isTyping true (once) and removed by false.
\* Nothing else takes a user out of the list.
handleTypingStatus(k, prev, userId, typing) ==
  LET members == getRoomMembers(selectedRoom[k])
      found == \E i \in 1..Len(members) : members[i] = userId
  IN  IF found /\ userId /= clientUser[k]
      THEN IF typing
           THEN IF \E i \in 1..Len(prev) : prev[i] = userId THEN prev
                ELSE Append(prev, userId)
           ELSE FilterSeq(prev, {i \in 1..Len(prev) : prev[i] /= userId}, 1)
      ELSE prev

\* ws.onmessage of socket c: a new_message event goes to handleNewMessage;
\* the other events leave the message list alone.
ClientOnMessage(c) ==
  LET k == socketOwner[c]
      data == Head(wire[c])
  IN  /\ socketState[c] = "OPEN"
      /\ wire[c] /= <<>>
      /\ wire' = [wire EXCEPT ![c] = Tail(@)]
      /\ IF data.type = "new_message"
         THEN /\ chatMessages' = [chatMessages EXCEPT ![k] = handleNewMessage(@, data.message)]
              /\ messagesQuery' = [messagesQuery EXCEPT ![k] = InvalidateQuery]
         ELSE UNCHANGED <<chatMessages, messagesQuery>>
      /\ realtimeTypingUsers' =
           IF data.type = "typing_status" /\ Truthy(data.userId)
           THEN [realtimeTypingUsers EXCEPT ![k] =
                   handleTypingStatus(k, @, data.userId, data.isTyping)]
           ELSE realtimeTypingUsers
      /\ UNCHANGED <<up, socketOwner, socketState, selectedRoom, clientUser, wsCurrent,
                     connectionStatus, sendMutation, reconnectAttempts, reconnectTimers,
                     inputIsTyping>>

\* sendMessage(type, data) of use-websocket: the frame goes out when
\* ws.current is OPEN, and is dropped otherwise.
sendMessage(k, frame) ==
  IF wsCurrent[k] /= NoConn /\ socketState[wsCurrent[k]] = "OPEN"
  THEN [up EXCEPT ![wsCurrent[k]] = Append(@, frame)]
  ELSE up

\* updateTypingMutation.mutate(typing) of MessageInput: the typing_status
\* frame goes out on the socket when it is open, else the typing endpoint
\* is called.
updateTypingMutation(k, typing) ==
  IF wsCurrent[k] /= NoConn /\ socketState[wsCurrent[k]] = "OPEN"
  THEN /\ up' = sendMessage(k, [type |-> "typing_status", isTyping |-> typing])
       /\ UNCHANGED <<regVars, storeVars>>
  ELSE /\ SetTypingRequest(selectedRoom[k], IF typing THEN "true" ELSE "false")
       /\ UNCHANGED up

\* handleTyping of MessageInput on a keystroke while not typing yet.
handleTyping(k) ==
  /\ Truthy(selectedRoom[k])
  /\ ~inputIsTyping[k]
  /\ inputIsTyping' = [inputIsTyping EXCEPT ![k] = TRUE]
  /\ updateTypingMutation(k, TRUE)
  /\ UNCHANGED <<wire, socketOwner, socketState, selectedRoom, clientUser, wsCurrent,
                 connectionStatus, chatMessages, messagesQuery, sendMutation,
                 reconnectAttempts, reconnectTimers, realtimeTypingUsers>>

\* The typing timeout of MessageInput runs: the indicator is taken back.
TypingStops(k) ==
  /\ inputIsTyping[k]
  /\ inputIsTyping' = [inputIsTyping EXCEPT ![k] = FALSE]
  /\ updateTypingMutation(k, FALSE)
  /\ UNCHANGED <<wire, socketOwner, socketState, selectedRoom, clientUser, wsCurrent,
                 connectionStatus, chatMessages, messagesQuery, sendMutation,
                 reconnectAttempts, reconnectTimers, realtimeTypingUsers>>

\* handleSendMessage of MessageInput: the mutation posts the text unless one
\* is pending.  The request is handled by the server at once; its response
\* travels back.
handleSendMessage(k, content) ==
  /\ Truthy(selectedRoom[k])
  /\ sendMutation[k] = <<>>
  /\ PostMessage(selectedRoom[k], content)
  /\ sendMutation' = [sendMutation EXCEPT ![k] =
         <<[status |-> lastOp'.status,
            message |-> IF lastOp'.status = 200 THEN <<lastOp'.message>> ELSE <<>>]>>]
  /\ UNCHANGED <<up, wire, socketOwner, socketState, selectedRoom, clientUser, wsCurrent,
                 connectionStatus, chatMessages, messagesQuery, reconnectAttempts,
                 reconnectTimers,
                    realtimeTypingUsers, inputIsTyping>>

\* onSuccess without its onSendMessage call.
SendMessageSettled_NoCallback(k) ==
  LET response == sendMutation[k][1]
  IN  /\ sendMutation[k] /= <<>>
      /\ sendMutation' = [sendMutation EXCEPT ![k] = <<>>]
      /\ IF response.status = 200
         THEN /\ up' = sendMessage(k, [type |-> "new_message", message |-> response.message[1]])
              /\ messagesQuery' = [messagesQuery EXCEPT ![k] = InvalidateQuery]
              /\ UNCHANGED chatMessages
         ELSE UNCHANGED <<up, messagesQuery, chatMessages>>
      /\ UNCHANGED <<wire, socketOwner, socketState, selectedRoom, clientUser, wsCurrent,
                     connectionStatus, reconnectAttempts,
                 reconnectTimers,
                    realtimeTypingUsers, inputIsTyping>>

\* The response of the send-message request arrives.  onSuccess: relay the
\* message over the socket, invalidate the queries, onSendMessage (which is
\* ChatArea's handleNewMessage).  onError: a toast.
SendMessageSettled(k) ==
  LET response == sendMutation[k][1]
  IN  /\ sendMutation[k] /= <<>>
      /\ sendMutation' = [sendMutation EXCEPT ![k] = <<>>]
      /\ IF response.status = 200
         THEN /\ up' = sendMessage(k, [type |-> "new_message", message |-> response.message[1]])
              /\ messagesQuery' = [messagesQuery EXCEPT ![k] = InvalidateQuery]
              /\ chatMessages' = [chatMessages EXCEPT ![k] =
                                    handleNewMessage(@, response.message[1])]
         ELSE UNCHANGED <<up, messagesQuery, chatMessages>>
      /\ UNCHANGED <<wire, socketOwner, socketState, selectedRoom, clientUser, wsCurrent,
                     connectionStatus, reconnectAttempts,
                 reconnectTimers,
                    realtimeTypingUsers, inputIsTyping>>

\* The server answers the list-messages request of client k.
FetchServed(k) ==
  LET response == ListMessages(selectedRoom[k])
  IN  /\ messagesQuery[k].phase = "fetching"
      /\ messagesQuery' = [messagesQuery EXCEPT ![k] =
             [phase |-> "responded", status |-> response.status, data |-> response.body]]
      /\ UNCHANGED <<up, wire, socketOwner, socketState, selectedRoom, clientUser, wsCurrent,
                     connectionStatus, chatMessages, sendMutation, reconnectAttempts,
                 reconnectTimers,
                    realtimeTypingUsers, inputIsTyping>>

\* The list-messages response arrives: it becomes and the
\* effect on [fetchedMessages] runs.
FetchArrives(k) ==
  /\ messagesQuery[k].phase = "responded"
  /\ messagesQuery' = [messagesQuery EXCEPT ![k] = IdleQuery]
  /\ IF messagesQuery[k].status = 200
     THEN chatMessages' = [chatMessages EXCEPT ![k] =
                             InitializeMessages(@, messagesQuery[k].data)]
     ELSE UNCHANGED chatMessages
  /\ UNCHANGED <<up, wire, socketOwner, socketState, selectedRoom, clientUser, wsCurrent,
                 connectionStatus, sendMutation, reconnectAttempts,
                 reconnectTimers,
                    realtimeTypingUsers, inputIsTyping>>

\* No browser yet.
ClientInit ==
  /\ up = [c \in Conns |-> <<>>]
  /\ wire = [c \in Conns |-> <<>>]
  /\ socketOwner = [c \in Conns |-> NoClient]
  /\ socketState = [c \in Conns |-> "NONE"]
  /\ selectedRoom = [k \in Clients |-> NoId]
  /\ clientUser = [k \in Clients |-> NoId]
  /\ wsCurrent = [k \in Clients |-> NoConn]
  /\ connectionStatus = [k \in Clients |-> "disconnected"]
  /\ chatMessages = [k \in Clients |-> <<>>]
  /\ messagesQuery = [k \in Clients |-> IdleQuery]
  /\ sendMutation = [k \in Clients |-> <<>>]
  /\ reconnectAttempts = [k \in Clients |-> 0]
  /\ reconnectTimers = [k \in Clients |-> <<>>]
  /\ realtimeTypingUsers = [k \in Clients |-> <<>>]
  /\ inputIsTyping = [k \in Clients |-> FALSE]

\* ------------------------------------------------------------ specifications

\* A message body a raw push-channel peer may put in a new_message frame.
SamplePayloads ==
  {[id |-> 1, content |-> "hi", senderId |-> 1, roomId |-> 1, timestamp |-> 0,
    status |-> "sent"]}

\* Everything but the registry, and everything but the store and the requests.
notRegistry == <<storeVars, reqVars, netVars, clientVars>>
notStore == <<regVars, bearer, netVars, clientVars>>

\* The registry driven by arbitrary peers: any connection may open, send any
\* frame while open, start closing and close, in any order.
RegConnection == \E ws \in Conns : Connection(ws) /\ UNCHANGED notRegistry
RegSocketClosing == \E ws \in Conns : SocketClosing(ws) /\ UNCHANGED notRegistry
RegJoinRoom ==
  \E ws \in Conns, roomId \in RoomIds, userId \in UserIds :
    OnJoinRoom(ws, roomId, userId) /\ UNCHANGED notRegistry
RegNewMessage ==
  \E ws \in Conns, message \in SamplePayloads :
    OnNewMessage(ws, message) /\ UNCHANGED notRegistry
RegTypingStatus ==
  \E ws \in Conns, isTyping \in BOOLEAN :
    OnTypingStatus(ws, isTyping) /\ UNCHANGED notRegistry
RegClose == \E ws \in Conns : OnClose(ws) /\ UNCHANGED notRegistry

RegistryNext ==
  \/ RegConnection
  \/ RegSocketClosing
  \/ RegJoinRoom
  \/ RegNewMessage
  \/ RegTypingStatus
  \/ RegClose

\* The server after start-up: empty registry, empty store, no request.
Init == RegistryInit /\ StoreInit /\ SignupInit /\ ClientInit

SpecRegistry == Init /\ [][RegistryNext]_vars

\* Signup requests handled one after the other: a request arrives only when
\* no other is suspended.
SeqSignupBegin ==
  \E q \in SignupReqs, body \in SignupBodies :
    NoSignupInFlight /\ SignupBegin(q, body) /\ UNCHANGED notStore
SignupStepLookup == \E q \in SignupReqs : SignupAfterLookup(q) /\ UNCHANGED notStore
SignupStepCreate == \E q \in SignupReqs : SignupAfterCreate(q) /\ UNCHANGED notStore
SignupStepRoom == \E q \in SignupReqs : SignupAfterRoom(q) /\ UNCHANGED notStore
SignupStepRespond == \E q \in SignupReqs : SignupRespond(q) /\ UNCHANGED notStore

SeqSignupNext ==
  \/ SeqSignupBegin
  \/ SignupStepLookup
  \/ SignupStepCreate
  \/ SignupStepRoom
  \/ SignupStepRespond

SpecSignupSeq == Init /\ [][SeqSignupNext]_vars

\* Concurrent signup requests: a request may arrive while others are
\* suspended at an await, and the suspended handlers resume in any order.
MaxConcurrentSignups == 2
ConcSignupBegin ==
  \E q \in 1..MaxConcurrentSignups, body \in SignupBodies :
    SignupBegin(q, body) /\ UNCHANGED notStore

ConcSignupNext ==
  \/ ConcSignupBegin
  \/ SignupStepLookup
  \/ SignupStepCreate
  \/ SignupStepRoom
  \/ SignupStepRespond

SpecSignup == Init /\ [][ConcSignupNext]_vars

\* The chat page in two browsers against the server.  The store is as two
\* signups handled one after the other leave it ("current_user", then
\* "bob"), each browser signed in as one of the two users.
SignedUpStore ==
  /\ users = <<[id |-> 1, username |-> "current_user", password |-> "123456",
                 isOnline |-> TRUE],
               [id |-> 2, username |-> "bob", password |-> "123456",
                 isOnline |-> TRUE]>>
  /\ chatRooms = <<[id |-> 1], [id |-> 2]>>
  /\ roomMembers = <<[id |-> 1, userId |-> 1, roomId |-> 1],
                     [id |-> 2, userId |-> 2, roomId |-> 2]>>
  /\ messages = <<>>
  /\ deliveryTimers = {}
  /\ userSessions = (1 :> 1) @@ (2 :> 2)
  /\ sessionCount = 2
  /\ now = 1
  /\ typingStatuses = <<>>
  /\ typingTimers = <<>>

\* Two browsers, signed in as the two users, nothing mounted yet.
BrowsersInit ==
  /\ up = [c \in Conns |-> <<>>]
  /\ wire = [c \in Conns |-> <<>>]
  /\ socketOwner = [c \in Conns |-> NoClient]
  /\ socketState = [c \in Conns |-> "NONE"]
  /\ selectedRoom = [k \in Clients |-> NoId]
  /\ clientUser = ("A" :> 1) @@ ("B" :> 2)
  /\ wsCurrent = [k \in Clients |-> NoConn]
  /\ connectionStatus = [k \in Clients |-> "disconnected"]
  /\ chatMessages = [k \in Clients |-> <<>>]
  /\ messagesQuery = [k \in Clients |-> IdleQuery]
  /\ sendMutation = [k \in Clients |-> <<>>]
  /\ reconnectAttempts = [k \in Clients |-> 0]
  /\ reconnectTimers = [k \in Clients |-> <<>>]
  /\ realtimeTypingUsers = [k \in Clients |-> <<>>]
  /\ inputIsTyping = [k \in Clients |-> FALSE]

PushInit ==
  /\ RegistryInit
  /\ SignedUpStore
  /\ SignupInit
  /\ BrowsersInit

\* Messages sent in a run.
MaxMessages == 2

\* The frames the last handler wrote travel to the browsers; those written
\* to a socket the browser has closed are lost.
\* The frames written to a socket overtaking the ones already in flight.
Transmit_Prepend(frames) ==
  [c \in Conns |-> IF socketState[c] = "CLOSED" THEN <<>> ELSE frames[c] \o wire[c]]

Transmit(frames) ==
  [c \in Conns |-> IF socketState[c] = "CLOSED" THEN <<>> ELSE wire[c] \o frames[c]]

PushMount ==
  \E k \in Clients, room \in RoomIds :
    Mount(k, room) /\ UNCHANGED <<regVars, storeVars, reqVars>>
PushAccept ==
  \E c \in Conns :
    /\ socketState[c] = "CONNECTING"
    /\ Connection(c)
    /\ UNCHANGED <<storeVars, reqVars, netVars, clientVars>>
PushOpen == \E c \in Conns : ClientOnOpen(c) /\ UNCHANGED <<regVars, storeVars, reqVars>>
PushJoinRoom ==
  \E c \in Conns :
    /\ up[c] /= <<>>
    /\ Head(up[c]).type = "join_room"
    /\ OnJoinRoom(c, Head(up[c]).roomId, Head(up[c]).userId)
    /\ up' = [up EXCEPT ![c] = Tail(@)]
    /\ wire' = Transmit(sent')
    /\ UNCHANGED <<storeVars, reqVars, clientVars>>
PushNewMessage ==
  \E c \in Conns :
    /\ up[c] /= <<>>
    /\ Head(up[c]).type = "new_message"
    /\ OnNewMessage(c, Head(up[c]).message)
    /\ up' = [up EXCEPT ![c] = Tail(@)]
    /\ wire' = Transmit(sent')
    /\ UNCHANGED <<storeVars, reqVars, clientVars>>
PushReceive == \E c \in Conns : ClientOnMessage(c) /\ UNCHANGED <<regVars, storeVars, reqVars>>
PushSend ==
  \E k \in Clients, content \in Contents :
    /\ Len(messages) < MaxMessages
    /\ handleSendMessage(k, content)
    /\ UNCHANGED reqVars
PushSettled == \E k \in Clients : SendMessageSettled(k) /\ UNCHANGED <<regVars, storeVars, reqVars>>
PushFetchServed == \E k \in Clients : FetchServed(k) /\ UNCHANGED <<regVars, storeVars, reqVars>>
PushFetchArrives == \E k \in Clients : FetchArrives(k) /\ UNCHANGED <<regVars, storeVars, reqVars>>
PushNext ==
  \/ PushMount
  \/ PushAccept
  \/ PushOpen
  \/ PushJoinRoom
  \/ PushNewMessage
  \/ PushReceive
  \/ PushSend
  \/ PushSettled
  \/ PushFetchServed
  \/ PushFetchArrives

SpecPush == PushInit /\ [][PushNext]_vars

\* The room endpoints called by any HTTP client: any bearer token (the
\* session of "current_user", the session of "bob", or none), any room id,
\* in any order, while the clock advances and the timers fire.
ApiTokens == {0, 1, 2}

\* The last second of the clock, and the set-typing calls accepted in a run.
MaxTime == 4
MaxTypingCalls == 2

notApi == <<signup, netVars, clientVars>>

ApiInit == RegistryInit /\ SignedUpStore /\ SignupInit /\ ClientInit

ApiSendMessage ==
  \E token \in ApiTokens, roomId \in RoomIds, content \in Contents \cup {NoContent} :
    /\ Len(messages) < MaxMessages
    /\ PostMessage(roomId, content)
    /\ bearer' = token
    /\ UNCHANGED notApi
ApiListMessages ==
  \E token \in ApiTokens, roomId \in RoomIds :
    ListMessagesRequest(roomId) /\ bearer' = token /\ UNCHANGED notApi
ApiSetTyping ==
  \E token \in ApiTokens, roomId \in RoomIds, isTyping \in TypingInputs :
    /\ Len(typingTimers) < MaxTypingCalls
    /\ SetTypingRequest(roomId, isTyping)
    /\ bearer' = token
    /\ UNCHANGED notApi
ApiListTyping ==
  \E token \in ApiTokens, roomId \in RoomIds :
    ListTypingRequest(roomId) /\ bearer' = token /\ UNCHANGED notApi
ApiDelivered ==
  \E id \in 1..Len(messages) :
    DeliveryTimerFires(id) /\ bearer' = NoId /\ UNCHANGED notApi
ApiTypingCleared ==
  \E i \in 1..Len(typingTimers) :
    TypingTimerFires(i) /\ bearer' = NoId /\ UNCHANGED notApi
ApiTick == now < MaxTime /\ Tick /\ bearer' = NoId /\ UNCHANGED notApi

ApiNext ==
  \/ ApiSendMessage
  \/ ApiListMessages
  \/ ApiSetTyping
  \/ ApiListTyping
  \/ ApiDelivered
  \/ ApiTypingCleared
  \/ ApiTick

SpecApi == ApiInit /\ [][ApiNext]_vars

\* Signup (with a well-formed body), login, logout and current-user requests,
\* one at a time.  Session ids are counted from 1; the requests try every id
\* issued so far, one never issued, and none.
MaxSessions == 3
AuthTokens == 0..(MaxSessions + 1)

\* The signup requests of this specification: one for each username.
AuthSignupReqs == {1, 2}

notAuth == <<signup, netVars, clientVars>>

AuthLogin ==
  \E username \in Usernames, password \in Passwords :
    /\ NoSignupInFlight
    /\ sessionCount < MaxSessions
    /\ Login(username, password)
    /\ bearer' = NoId
    /\ UNCHANGED notAuth

AuthLogout ==
  \E sessionId \in AuthTokens :
    /\ NoSignupInFlight
    /\ Logout(sessionId)
    /\ bearer' = NoId
    /\ UNCHANGED notAuth

AuthMe ==
  \E sessionId \in AuthTokens :
    /\ NoSignupInFlight
    /\ Me(sessionId)
    /\ bearer' = sessionId
    /\ UNCHANGED notAuth

AuthSignupBegin ==
  \E q \in AuthSignupReqs, body \in SignupBodies :
    /\ NoSignupInFlight
    /\ sessionCount < MaxSessions
    /\ SignupBodyValid(body)
    /\ SignupBegin(q, body)
    /\ UNCHANGED notStore

AuthNext ==
  \/ AuthSignupBegin
  \/ SignupStepLookup
  \/ SignupStepCreate
  \/ SignupStepRoom
  \/ SignupStepRespond
  \/ AuthLogin
  \/ AuthLogout
  \/ AuthMe

SpecAuth == Init /\ [][AuthNext]_vars


\* ------------------------------------------------------------- properties

\* The rooms whose subscriber set holds connection c.
RoomsOf(c) == {r \in DOMAIN roomClients : c \in roomClients[r]}

\* The connections of room r's set (none when the room has no key).
Subscribers(r) == IF HasRoom(roomClients, r) THEN roomClients[r] ELSE {}

\* C1: in every reachable state of the registry, each connection is in the
\* subscriber set of at most one room.
C1_AtMostOneRoom == \A c \in Conns : Cardinality(RoomsOf(c)) <= 1

\* C2: a publish(roomId, event, exclude) writes the event exactly once to
\* every open connection of roomId's set other than the excluded one, and
\* nothing to any other connection (the excluded one, one that is not open,
\* one that is not in that room's set).
C2_PublishFanOut ==
  published /= <<>> =>
    \A c \in Conns :
      sent[c] = IF /\ c \in Subscribers(published[1].roomId)
                   /\ c /= published[1].exclude
                   /\ readyState[c] = "OPEN"
                THEN <<published[1].event>>
                ELSE <<>>

\* C2 happens: three connections are in one room's set, an event is published
\* excluding one of them, and exactly the other two are written to.
C2_Witness ==
  /\ published /= <<>>
  /\ Subscribers(published[1].roomId) = Conns
  /\ published[1].exclude \in Conns
  /\ \A c \in Conns : readyState[c] = "OPEN"
  /\ \A c \in Conns \ {published[1].exclude} : sent[c] = <<published[1].event>>
  /\ sent[published[1].exclude] = <<>>

\* C2, the other cases: an event published to a room whose set holds a
\* connection that is not open, while another connection is in another room.
C2_SkippedReached ==
  /\ published /= <<>>
  /\ \E c \in Subscribers(published[1].roomId) : readyState[c] = "CLOSING"
  /\ \E c \in Conns : readyState[c] = "OPEN" /\ RoomsOf(c) /= {}
                         /\ c \notin Subscribers(published[1].roomId)
  /\ \E c \in Conns : sent[c] /= <<>>

\* A connection that has handled a join_room frame: its room id is truthy,
\* or it sits in the set of the falsy room id (which it can never leave).
HasJoined(c) == Truthy(currentRoomId[c]) \/ c \in Subscribers(NoId)

\* C3: when a connection that joined room R with userId u disconnects, it is
\* removed from R's set, and every connection remaining in R's set is sent
\* exactly one user_left event, carrying the userId of its latest join.
C3_DisconnectNotifies ==
  (lastOp.type = "close" /\ HasJoined(lastOp.ws)) =>
    LET R == currentRoomId[lastOp.ws]
        u == currentUserId[lastOp.ws]
    IN  /\ lastOp.ws \notin Subscribers(R)
        /\ \A c \in Subscribers(R) : sent[c] = <<UserLeft(u, R)>>

\* C4: a join_room frame (roomId, userId) handled for connection ws sends
\* user_joined, carrying userId, once to every other open connection of that
\* room's set, and nothing to ws or to anyone else.
C4_JoinNotifiesOthers ==
  lastOp.type = "join_room" =>
    /\ lastOp.ws \in Subscribers(lastOp.roomId)
    /\ \A c \in Conns :
         sent[c] = IF /\ c /= lastOp.ws
                      /\ c \in Subscribers(lastOp.roomId)
                      /\ readyState[c] = "OPEN"
                   THEN <<UserJoined(lastOp.userId, lastOp.roomId)>>
                   ELSE <<>>

\* C4 happens: a connection joins a room that already holds an open
\* connection, which is sent the event, and the joiner is sent nothing.
C4_Witness ==
  /\ lastOp.type = "join_room"
  /\ \E c \in Conns \ {lastOp.ws} : sent[c] = <<UserJoined(lastOp.userId, lastOp.roomId)>>
  /\ sent[lastOp.ws] = <<>>
  /\ Truthy(lastOp.userId)

\* The users stored under a username.
UsersNamed(username) == {i \in 1..Len(users) : users[i].username = username}

\* C9: with signups handled one after the other, a well-formed signup whose
\* username was not stored succeeds, and getUserByUsername resolves that
\* username to exactly the user it created from then on; one whose username
\* was stored is answered 409 and leaves the numbers of users, sessions,
\* rooms and membership rows as it found them.
C9_SequentialSignup ==
  \A q \in SignupReqs :
    (signup[q].pc = "done" /\ signup[q].valid) =>
      IF signup[q].stored
      THEN /\ signup[q].status = 409
           /\ signup[q].after = signup[q].before
      ELSE /\ signup[q].status = 200
           /\ Cardinality(UsersNamed(signup[q].username)) = 1
           /\ getUserByUsername(signup[q].username) /= <<>>
           /\ getUserByUsername(signup[q].username)[1].id = signup[q].newUser

\* C9 happens: two usernames were signed up, each resolving to its own user,
\* and a repeated username was rejected.
C9_Witness ==
  \E q1, q2, q3 \in SignupReqs :
    /\ signup[q1].pc = "done" /\ signup[q1].status = 200
    /\ signup[q2].pc = "done" /\ signup[q2].status = 200
    /\ signup[q1].username /= signup[q2].username
    /\ signup[q3].pc = "done" /\ signup[q3].status = 409
    /\ signup[q3].username = signup[q1].username

\* C10: under every interleaving of concurrent signup requests, the store
\* never holds two users with the same username.
C10_UniqueUsernames ==
  \A i, j \in 1..Len(users) : i /= j => users[i].username /= users[j].username

\* The ids of the entries of a message list.
Ids(list) == {list[i].id : i \in 1..Len(list)}

\* The message is in the store.
Stored(message) ==
  \E i \in 1..Len(messages) :
    messages[i].id = message.id /\ messages[i].content = message.content
      /\ messages[i].roomId = message.roomId

Quiescent ==
  /\ \A c \in Conns : up[c] = <<>> /\ wire[c] = <<>> /\ socketState[c] /= "CONNECTING"
  /\ \A k \in Clients : messagesQuery[k].phase = "idle" /\ sendMutation[k] = <<>>

\* Client k views room R over an open push connection that has joined R.
Viewing(k, R) ==
  /\ selectedRoom[k] = R
  /\ wsCurrent[k] /= NoConn
  /\ socketState[wsCurrent[k]] = "OPEN"
  /\ readyState[wsCurrent[k]] = "OPEN"
  /\ wsCurrent[k] \in Subscribers(R)

\* C6: once nothing is in flight any more, every message stored for a room
\* is in the local list of every client viewing that room over an open push
\* connection.
C6_NoMessageDropped ==
  Quiescent =>
    \A k \in Clients, i \in 1..Len(messages) :
      Viewing(k, messages[i].roomId) => messages[i].id \in Ids(chatMessages[k])

\* C6, the push that overtakes the initial fetch: nothing is in flight, the
\* client's list holds a later message and lacks an earlier one for good.
C6_HistoryLostReached ==
  /\ Quiescent
  /\ \E k \in Clients :
       /\ Viewing(k, 1)
       /\ Ids(chatMessages[k]) = {2}
       /\ Len(messages) = 2 /\ messages[1].roomId = 1

\* C7: the local list never holds two entries with one id; a new_message
\* push or an own-send response whose id is present leaves the list as it
\* is, and one whose id is absent is appended, whatever its content and
\* timestamp.
C7_MergeById ==
  [][\A k \in Clients :
       /\ \A i, j \in 1..Len(chatMessages'[k]) :
            i /= j => chatMessages'[k][i].id /= chatMessages'[k][j].id
       /\ \A c \in Conns :
            (/\ socketOwner[c] = k
             /\ wire[c] /= <<>>
             /\ wire'[c] = Tail(wire[c])
             /\ Head(wire[c]).type = "new_message") =>
              chatMessages'[k] =
                IF Head(wire[c]).message.id \in Ids(chatMessages[k])
                THEN chatMessages[k]
                ELSE Append(chatMessages[k], Head(wire[c]).message)
       /\ (/\ sendMutation[k] /= <<>>
           /\ sendMutation'[k] = <<>>
           /\ sendMutation[k][1].status = 200) =>
            chatMessages'[k] =
              IF sendMutation[k][1].message[1].id \in Ids(chatMessages[k])
              THEN chatMessages[k]
              ELSE Append(chatMessages[k], sendMutation[k][1].message[1])
    ]_vars

\* C7 happens: a client holds two messages of equal content and timestamp
\* under different ids, and has received the push of a message it had
\* already added (its own, relayed over its connection).
C7_Witness ==
  \E k \in Clients :
    /\ wsCurrent[k] /= NoConn
    /\ lastOp.type = "new_message"
    /\ lastOp.ws = wsCurrent[k]
    /\ sent[wsCurrent[k]] = <<NewMessage(lastOp.message)>>
    /\ wire[wsCurrent[k]] = <<>>
    /\ Len(chatMessages[k]) = 2
    /\ chatMessages[k][1].content = chatMessages[k][2].content
    /\ chatMessages[k][1].timestamp = chatMessages[k][2].timestamp
    /\ chatMessages[k][1].id /= chatMessages[k][2].id

\* C8, as stated: the response of a client's own send-message request leaves
\* its local list as it is, and the list grows only when a new_message push
\* is received.
C8_ResponseAddsNothing ==
  [][\A k \in Clients :
       /\ (sendMutation[k] /= <<>> /\ sendMutation'[k] = <<>>) =>
            chatMessages'[k] = chatMessages[k]
       /\ (Len(chatMessages[k]) > 0 /\ Len(chatMessages'[k]) > Len(chatMessages[k])) =>
            \E c \in Conns : /\ socketOwner[c] = k
                              /\ wire[c] /= <<>>
                              /\ wire'[c] = Tail(wire[c])
    ]_vars

\* C8, amended: the 200 response of a client's own send-message request
\* puts the message in its local list at once (appended unless its id is
\* already there) and starts a refetch of the list-messages query; a
\* new_message push whose id is in the list leaves the list as it is.
C8_ResponseAddsMessage ==
  [][/\ \A k \in Clients :
       (/\ sendMutation[k] /= <<>>
        /\ sendMutation'[k] = <<>>
        /\ sendMutation[k][1].status = 200) =>
         /\ sendMutation[k][1].message[1].id \in Ids(chatMessages'[k])
         /\ Len(chatMessages'[k]) =
              IF sendMutation[k][1].message[1].id \in Ids(chatMessages[k])
              THEN Len(chatMessages[k]) ELSE Len(chatMessages[k]) + 1
         /\ messagesQuery'[k].phase = "fetching"
     /\ \A k \in Clients, c \in Conns :
          (/\ socketOwner[c] = k
           /\ wire[c] /= <<>>
           /\ wire'[c] = Tail(wire[c])
           /\ Head(wire[c]).type = "new_message"
           /\ Head(wire[c]).message.id \in Ids(chatMessages[k])) =>
            chatMessages'[k] = chatMessages[k]
    ]_vars

\* C8 happens: a client's list holds its own message while the frame
\* relaying it is still on its way to the server, so that no push of it
\* exists yet.
C8_Witness ==
  \E k \in Clients :
    /\ wsCurrent[k] /= NoConn
    /\ sendMutation[k] = <<>>
    /\ up[wsCurrent[k]] /= <<>>
    /\ Head(up[wsCurrent[k]]).type = "new_message"
    /\ Head(up[wsCurrent[k]]).message.id \in Ids(chatMessages[k])
    /\ \A c \in Conns : wire[c] = <<>>

\* The send-message and list-messages endpoints with the delivery timer and
\* the clock.  A timer that is due fires and the clock advances (weak
\* fairness); a message is sent only while the bounded clock can still reach
\* the time its timer is due.
DeliverySend ==
  /\ now + DeliveryDelay <= MaxTime
  /\ ApiSendMessage

DeliveryNext ==
  \/ DeliverySend
  \/ ApiListMessages
  \/ ApiDelivered
  \/ ApiTick

SpecDelivery ==
  /\ ApiInit
  /\ [][DeliveryNext]_vars
  /\ WF_vars(ApiDelivered)
  /\ WF_vars(ApiTick)

\* The set-typing and list-typing endpoints with the clear timers and the
\* clock, which runs long enough for a status to outlive the staleness bound
\* while its timer has not yet run.
MaxTypingTime == 6

TypingTick == now < MaxTypingTime /\ Tick /\ bearer' = NoId /\ UNCHANGED notApi

TypingNext ==
  \/ ApiSetTyping
  \/ ApiListTyping
  \/ ApiTypingCleared
  \/ TypingTick

SpecTyping == ApiInit /\ [][TypingNext]_vars

\* The storage object on its own, driven through its interface from the
\* store two signups leave: rooms are created, membership rows added for any
\* user and room id (a row may repeat another or name a room not created
\* yet), messages created by the first user in stored rooms as the clock
\* advances, and the rooms of a user listed.
StorageRoomIds == {1, 2, 3}
StorageUserIds == {1, 2}
StorageRowIds == {3, 4, 5}
StorageSenderIds == {1}
StorageTimes == {2, 3}

StorageIdle ==
  UNCHANGED <<roomClients, currentRoomId, currentUserId, readyState, published, sent,
              users, deliveryTimers, userSessions, sessionCount, typingStatuses,
              typingTimers, reqVars, netVars, clientVars>>

StorageInit == RegistryInit /\ SignedUpStore /\ SignupInit /\ ClientInit

StorageCreateChatRoom ==
  /\ Len(chatRooms) + 1 \in StorageRoomIds
  /\ chatRooms' = Append(chatRooms, createChatRoom)
  /\ lastOp' = [type |-> "storage", ws |-> NoConn]
  /\ UNCHANGED <<roomMembers, messages, now>>
  /\ StorageIdle

StorageAddUserToRoom ==
  \E userId \in StorageUserIds, roomId \in StorageRoomIds :
    /\ Len(roomMembers) + 1 \in StorageRowIds
    /\ roomMembers' = Append(roomMembers, addUserToRoom(userId, roomId))
    /\ lastOp' = [type |-> "storage", ws |-> NoConn]
    /\ UNCHANGED <<chatRooms, messages, now>>
    /\ StorageIdle

StorageCreateMessage ==
  \E senderId \in StorageSenderIds, roomId \in StorageRoomIds :
    /\ Len(messages) < MaxMessages
    /\ getUser(senderId) /= <<>>
    /\ getChatRoom(roomId) /= <<>>
    /\ messages' = Append(messages, createMessage("hi", senderId, roomId))
    /\ lastOp' = [type |-> "storage", ws |-> NoConn]
    /\ UNCHANGED <<chatRooms, roomMembers, now>>
    /\ StorageIdle

StorageTick ==
  /\ now + 1 \in StorageTimes
  /\ now' = now + 1
  /\ lastOp' = [type |-> "storage", ws |-> NoConn]
  /\ UNCHANGED <<chatRooms, roomMembers, messages>>
  /\ StorageIdle

StorageListRooms ==
  \E userId \in StorageUserIds :
    /\ lastOp' = [type |-> "getChatRoomsForUser", ws |-> NoConn, userId |-> userId,
                  rooms |-> getChatRoomsForUser(userId)]
    /\ UNCHANGED <<chatRooms, roomMembers, messages, now>>
    /\ StorageIdle

StorageNext ==
  \/ StorageCreateChatRoom
  \/ StorageAddUserToRoom
  \/ StorageCreateMessage
  \/ StorageTick
  \/ StorageListRooms

SpecStorage == StorageInit /\ [][StorageNext]_vars

\* The user a bearer token stands for in the session table, NoId when the
\* table does not hold it.
SessionUser(token) == IF token \in DOMAIN userSessions THEN userSessions[token] ELSE NoId

\* C11: a list-messages, send-message or set-typing request made by a user
\* that has no membership row in the room is answered 403 and leaves the
\* messages, the typing statuses and the timers as they were.
C11_NonMemberRejected ==
  [][(/\ lastOp'.type \in {"list_messages", "send_message", "set_typing"}
      /\ Truthy(SessionUser(bearer'))
      /\ ~ isUserInRoom(SessionUser(bearer'), lastOp'.roomId)) =>
       /\ lastOp'.status = 403
       /\ UNCHANGED <<messages, deliveryTimers, typingStatuses, typingTimers>>
    ]_vars

\* C12: a connection is in a room's set only if the userId it joined with
\* has a membership row for that room.
C12_PushGatedByMembership ==
  \A r \in DOMAIN roomClients :
    \A c \in roomClients[r] : isUserInRoom(currentUserId[c], r)

\* C13: a room-scoped request acts as the user its bearer token maps to in
\* the session table, and is rejected (401) when the table does not hold the
\* token.
C13_ActsAsSessionUser ==
  lastOp.type \in {"list_messages", "send_message", "set_typing", "list_typing"} =>
    IF bearer \in DOMAIN userSessions
    THEN lastOp.actor = userSessions[bearer]
    ELSE lastOp.status = 401

\* C14: a session id issued by login or signup for a user stays mapped to
\* that user until logout is called with it, current-user answers with that
\* user for as long as it is mapped and 401 otherwise, a logged-out id is
\* removed, and the only ids ever mapped are the fresh ones login and signup
\* issue (so a logged-out or never-issued id is never accepted).
C14_SessionLifetime ==
  [][/\ DOMAIN userSessions \subseteq 1..sessionCount
     /\ \A t \in DOMAIN userSessions :
          IF signup' = signup /\ lastOp'.type = "logout" /\ lastOp'.sessionId = t
          THEN t \notin DOMAIN userSessions'
          ELSE t \in DOMAIN userSessions' /\ userSessions'[t] = userSessions[t]
     /\ \A t \in DOMAIN userSessions' \ DOMAIN userSessions :
          /\ t = sessionCount + 1
          /\ sessionCount' = t
          /\ \/ /\ signup' = signup
                /\ lastOp' = [type |-> "login", ws |-> NoConn, status |-> 200,
                              user |-> userSessions'[t], sessionId |-> t]
             \/ \E q \in SignupReqs :
                  /\ signup[q].pc = "created" /\ signup'[q].pc = "room"
                  /\ userSessions'[t] = signup[q].newUser
     /\ (signup' = signup /\ lastOp'.type = "me") =>
          IF lastOp'.sessionId \in DOMAIN userSessions
          THEN lastOp'.status = 200 /\ lastOp'.user = userSessions[lastOp'.sessionId]
          ELSE lastOp'.status = 401 /\ lastOp'.user = NoId
    ]_vars

\* A session id that was issued and then logged out has just been rejected
\* by current-user, while another session is still accepted.
C14_Witness ==
  /\ lastOp.type = "me" /\ lastOp.status = 401
  /\ lastOp.sessionId \in 1..sessionCount
  /\ userSessions /= <<>>

\* The ids of the stored rooms of which userId has at least one membership row.
RoomsWithRow(userId) ==
  {chatRooms[i].id : i \in {j \in 1..Len(chatRooms) :
     \E r \in 1..Len(roomMembers) :
       roomMembers[r].userId = userId /\ roomMembers[r].roomId = chatRooms[j].id}}

\* C15: for every user, getChatRoomsForUser returns exactly the stored rooms
\* that have a membership row of the user, each of them once.
C15_RoomsOfUser ==
  \A userId \in StorageUserIds :
    LET rooms == getChatRoomsForUser(userId)
    IN  /\ {rooms[i].id : i \in 1..Len(rooms)} = RoomsWithRow(userId)
        /\ \A i, j \in 1..Len(rooms) : rooms[i].id = rooms[j].id => i = j

\* The rooms of a user with two rows for one room, a row for a room that is
\* not stored, and a second stored room have been listed.
C15_Witness ==
  /\ lastOp.type = "getChatRoomsForUser"
  /\ Len(lastOp.rooms) = 2
  /\ \E r, q \in 1..Len(roomMembers) :
       /\ r /= q
       /\ roomMembers[r].userId = lastOp.userId /\ roomMembers[q].userId = lastOp.userId
       /\ roomMembers[r].roomId = roomMembers[q].roomId
  /\ \E r \in 1..Len(roomMembers) :
       roomMembers[r].userId = lastOp.userId /\ getChatRoom(roomMembers[r].roomId) = <<>>

\* The timestamps of the messages of a room.
TimestampsOf(roomId) ==
  {messages[i].timestamp : i \in {j \in 1..Len(messages) : messages[j].roomId = roomId}}

C17_CreatedIsListed ==
  \A m \in 1..Len(messages) :
    LET page == getMessages(messages[m].roomId, DefaultLimit, 0)
        at == {i \in 1..Len(page) : page[i].id = messages[m].id}
    IN  /\ Cardinality(at) = 1
        /\ \A i \in at :
             /\ page[i].content = messages[m].content
             /\ page[i].senderId = messages[m].senderId
             /\ getUser(page[i].senderId) /= <<>>
             /\ messages[m].id \in deliveryTimers => page[i].status = "sent"

\* The list-messages endpoint has just returned two messages, the second
\* still "sent" with its timer pending.
C17_Witness ==
  /\ lastOp.type = "list_messages" /\ lastOp.status = 200
  /\ Len(lastOp.body) = 2
  /\ lastOp.body[2].status = "sent" /\ lastOp.body[2].id \in deliveryTimers
  /\ lastOp.body[2].content = "hi"

\* The message with this id is stored and list-messages of its room shows it
\* with status "delivered".
FetchedDelivered(id) ==
  /\ id <= Len(messages)
  /\ LET page == getMessages(messages[id].roomId, DefaultLimit, 0)
     IN  \E i \in 1..Len(page) : page[i].id = id /\ page[i].status = "delivered"

\* C18: a message created by the send-message endpoint has status "sent"
\* while its delivery timer is pending, and from some point on every fetch of
\* its room shows it "delivered".
C18_EventuallyDelivered ==
  /\ [](\A i \in 1..Len(messages) :
          messages[i].id \in deliveryTimers => messages[i].status = "sent")
  /\ \A id \in 1..MaxMessages : (id <= Len(messages)) ~> [] FetchedDelivered(id)

\* One message has been delivered, no earlier than a second after it was
\* stored, while a later one is still "sent".
C18_Witness ==
  /\ Len(messages) = 2
  /\ messages[1].status = "delivered" /\ 1 \notin deliveryTimers
  /\ now >= messages[1].timestamp + DeliveryDelay
  /\ messages[2].status = "sent" /\ 2 \in deliveryTimers

\* C19: updateMessageStatus applied twice gives the messages it gives applied
\* once; it changes nothing but the status of the message with the id, which
\* becomes the status given; for an id that is not stored it changes nothing.
C19_IdempotentOverwrite ==
  \A id \in 0..(MaxMessages + 1), status \in {"sent", "delivered", "read"} :
    LET once == updateMessageStatus(messages, id, status)
        twice == updateMessageStatus(once, id, status)
    IN  /\ twice = once
        /\ Len(once) = Len(messages)
        /\ \A i \in 1..Len(messages) :
             IF messages[i].id = id
             THEN once[i] = [messages[i] EXCEPT !.status = status]
             ELSE once[i] = messages[i]
        /\ (\A i \in 1..Len(messages) : messages[i].id /= id) => once = messages

\* The delivery timer has applied updateMessageStatus to the first of two
\* messages, and the other is as it was.
C19_Witness ==
  /\ lastOp.type = "delivery_timer" /\ lastOp.messageId = 1
  /\ Len(messages) = 2
  /\ messages[1].status = "delivered"
  /\ messages[2].status = "sent"

\* The users getTypingUsers returns for a room.
TypingIn(roomId) ==
  {getTypingUsers(roomId)[i] : i \in 1..Len(getTypingUsers(roomId))}

\* C20: right after updateTypingStatus(u, r, true) for a stored user u,
\* getTypingUsers(r) includes u; right after a clear timer of (u, r) has
\* fired it excludes u; and u comes to be included only by an
\* updateTypingStatus(u, r, true), so that u stays excluded after the timer
\* until a later such call.
C20_TypingUntilCleared ==
  [][\A userId \in StorageUserIds, roomId \in RoomIds :
       LET SetTrue == /\ Len(typingTimers') = Len(typingTimers) + 1
                      /\ lastOp'.type = "set_typing" /\ lastOp'.status = 200
                      /\ lastOp'.isTyping \in {"true", "absent"}
                      /\ lastOp'.actor = userId /\ lastOp'.roomId = roomId
           Cleared == /\ Len(typingTimers') = Len(typingTimers) - 1
                      /\ lastOp'.type = "typing_timer"
                      /\ lastOp'.userId = userId /\ lastOp'.roomId = roomId
       IN  /\ SetTrue => userId \in TypingIn(roomId)'
           /\ Cleared => userId \notin TypingIn(roomId)'
           /\ (userId \notin TypingIn(roomId) /\ userId \in TypingIn(roomId)') => SetTrue
    ]_vars

\* A clear timer has fired three seconds after the one set-typing call and
\* the user is no longer among the typing users of the room.
C20_Witness ==
  /\ lastOp.type = "typing_timer" /\ lastOp.userId = 1 /\ lastOp.roomId = 1
  /\ now = 1 + TypingClearDelay
  /\ typingTimers = <<>>
  /\ 1 \notin TypingIn(1)

\* ------------------------------------------------- the reconnecting client
\* One browser, logged in as user 1, with its ChatArea mounted on a room:
\* connection attempts succeed or fail, sockets close, the reconnect
\* timeouts fire when they are due, the connect effect runs again.
MaxReconnectTime == 8
MaxPendingTimers == 1
ReconnectClient == "A"
notClient == <<regVars, storeVars, reqVars>>
RecMount == \E room \in RoomIds : Mount(ReconnectClient, room) /\ UNCHANGED notClient
RecClose == \E c \in Conns : ClientOnClose(c) /\ UNCHANGED notClient
RecTimerFires ==
  \E i \in 1..maxReconnectAttempts :
    ReconnectTimerFires(ReconnectClient, i) /\ UNCHANGED notClient
RecEffect ==
  /\ Len(reconnectTimers[ReconnectClient]) < MaxPendingTimers
  /\ ConnectEffect(ReconnectClient)
  /\ UNCHANGED notClient
NoTimerDue == \A k \in Clients : \A i \in 1..Len(reconnectTimers[k]) : reconnectTimers[k][i].due > now
RecTick ==
  /\ now < MaxReconnectTime
  /\ NoTimerDue
  /\ Tick
  /\ UNCHANGED <<reqVars, netVars, clientVars>>
ReconnectNext ==
  \/ RecMount
  \/ PushAccept
  \/ PushOpen
  \/ RecClose
  \/ RecTimerFires
  \/ RecEffect
  \/ RecTick

SpecReconnect == PushInit /\ [][ReconnectNext]_vars

\* The same browser while the server cannot be reached: every connection
\* attempt fails.
MaxOfflineTime == 34
OfflineTick ==
  /\ now < MaxOfflineTime
  /\ NoTimerDue
  /\ Tick
  /\ UNCHANGED <<reqVars, netVars, clientVars>>
OfflineNext ==
  \/ RecMount
  \/ RecClose
  \/ RecTimerFires
  \/ RecEffect
  \/ OfflineTick

SpecOffline == PushInit /\ [][OfflineNext]_vars


\* The seconds at which a status of (userId, roomId) was last written.
LastUpdates(userId, roomId) ==
  {typingStatuses[i].lastUpdate : i \in TypingKey(userId, roomId)}

\* C21: a user shown typing by one updateTypingStatus(u, r, true), with no
\* call before it whose timer is still pending and none after it, is still
\* shown four seconds after the call: the user leaves getTypingUsers(r) only
\* more than four seconds after the status was written.
C21_TypingForFourSeconds ==
  [][\A userId \in StorageUserIds, roomId \in RoomIds :
       (/\ userId \in TypingIn(roomId)
        /\ userId \notin TypingIn(roomId)'
        /\ lastOp'.type /= "set_typing"
        /\ \A i \in 1..Len(typingTimers) :
             (typingTimers[i].userId = userId /\ typingTimers[i].roomId = roomId) =>
               \A t \in LastUpdates(userId, roomId) :
                 typingTimers[i].due = t + TypingClearDelay) =>
         \A t \in LastUpdates(userId, roomId) : now' - t > 4
    ]_vars

\* C22: getTypingUsers returns a user for a room only if the user's status
\* for the room is stored with isTyping true and was written less than five
\* seconds before the read, whether or not the clear timer has run.
C22_StalenessBackstop ==
  \A userId \in StorageUserIds, roomId \in RoomIds :
    userId \in TypingIn(roomId) =>
      \E i \in TypingKey(userId, roomId) :
        /\ typingStatuses[i].isTyping
        /\ now - typingStatuses[i].lastUpdate < TypingTimeout

\* A status with isTyping true written five seconds ago is still stored,
\* its clear timer has not run, and the user is not among the typing users.
C22_Witness ==
  /\ \E i \in TypingKey(1, 1) :
       /\ typingStatuses[i].isTyping
       /\ now - typingStatuses[i].lastUpdate = TypingTimeout
  /\ \E i \in 1..Len(typingTimers) : typingTimers[i].userId = 1 /\ typingTimers[i].roomId = 1
  /\ lastOp.type = "list_typing" /\ lastOp.status = 200
  /\ 1 \notin TypingIn(1)

\* C23: client reconnection uses exponential backoff. The reconnect attempt
\* that follows the loss of an open connection is the first since the last
\* successful open, so the close of the open socket that ws.current names
\* schedules it 2^0 = 1 second later, and the attempts counter never
\* exceeds maxReconnectAttempts.
C23_ExponentialBackoff ==
  [][\A c \in Conns :
       LET k == socketOwner[c]
       IN  (/\ k /= NoClient
            /\ wsCurrent[k] = c
            /\ socketState[c] = "OPEN"
            /\ socketState'[c] = "CLOSED") =>
             /\ Len(reconnectTimers'[k]) = Len(reconnectTimers[k]) + 1
             /\ reconnectTimers'[k][Len(reconnectTimers'[k])].due = now + 1
             /\ reconnectAttempts'[k] <= maxReconnectAttempts]_vars

\* The sockets of client k that have not closed yet.
LiveSockets(k) ==
  {c \in Conns : socketOwner[c] = k /\ socketState[c] \in {"CONNECTING", "OPEN", "CLOSING"}}

\* C24: the reconnect loop terminates. While every attempt fails, once the
\* fifth reconnect attempt has been made and has failed, no reconnect timer
\* is pending, and no sixth attempt is made.
C24_LoopTerminates ==
  \A k \in Clients :
    /\ reconnectAttempts[k] <= maxReconnectAttempts
    /\ (reconnectAttempts[k] = maxReconnectAttempts /\ LiveSockets(k) = {}) =>
         reconnectTimers[k] = <<>>

\* ------------------------------------------------ the message store alone
\* createMessage and getMessages called directly on the storage of two
\* signed-up users, with sender ids that are stored and one that is not.
MaxStoredMessages == 3
MaxMessageTime == 3
MessageSenderIds == {1, 3}
MessageRoomIds == {1, 2}
MessageLimits == {1, 2}
MessageOffsets == {0, 1, 2}
MessagesIdle ==
  UNCHANGED <<roomClients, currentRoomId, currentUserId, readyState, published, sent,
              users, chatRooms, roomMembers, deliveryTimers, userSessions, sessionCount,
              typingStatuses, typingTimers, reqVars, netVars, clientVars>>

\* createMessage(insertMessage): the message is put in the map, then the
\* sender is looked up and "Sender not found" thrown when there is none.
MessagesCreate ==
  \E senderId \in MessageSenderIds, roomId \in MessageRoomIds :
    /\ Len(messages) < MaxStoredMessages
    /\ messages' = Append(messages, createMessage("hi", senderId, roomId))
    /\ lastOp' = [type |-> "createMessage", ws |-> NoConn, senderId |-> senderId,
                  roomId |-> roomId, threw |-> getUser(senderId) = <<>>]
    /\ UNCHANGED now
    /\ MessagesIdle

\* getMessages(roomId, limit, offset): it has no failing path.
MessagesList ==
  \E roomId \in MessageRoomIds, limit \in MessageLimits, offset \in MessageOffsets :
    /\ lastOp' = [type |-> "getMessages", ws |-> NoConn, roomId |-> roomId,
                  limit |-> limit, offset |-> offset, threw |-> FALSE,
                  result |-> getMessages(roomId, limit, offset)]
    /\ UNCHANGED <<messages, now>>
    /\ MessagesIdle

MessagesTick ==
  /\ now < MaxMessageTime
  /\ now' = now + 1
  /\ lastOp' = [type |-> "tick", ws |-> NoConn]
  /\ UNCHANGED messages
  /\ MessagesIdle

MessagesNext ==
  \/ MessagesCreate
  \/ MessagesList
  \/ MessagesTick

SpecMessages == StorageInit /\ [][MessagesNext]_vars

\* The messages of a room in ascending timestamp order.
RoomSequence(roomId) ==
  SortByTimestamp(FilterSeq(messages, {i \in 1..Len(messages) : messages[i].roomId = roomId}, 1))

\* C25: getMessages fails when a message of the requested window has a
\* senderId that is not a stored user; it never returns without that
\* message. Every call that returned gives all the messages of its window.
C25_NoSilentOmission ==
  lastOp.type = "getMessages" =>
    \/ lastOp.threw
    \/ Len(lastOp.result) = Len(Slice(RoomSequence(lastOp.roomId), lastOp.offset, lastOp.limit))

\* C26: a createMessage that fails because its senderId is not a stored user
\* leaves the messages of the store as they were.
C26_FailedCreateNotApplied ==
  [][(lastOp'.type = "createMessage" /\ lastOp'.threw) => messages' = messages]_vars

\* C27: within one room the events are totally ordered by the server. The
\* server publishes one event at a time; the event goes, in that same step,
\* behind everything already in flight on each connection that receives it,
\* and a connection takes its events from the front: every connection sees
\* the events it receives in the order they were published, and two
\* connections see the events they both receive in the same order.
C27_TotalOrderPerRoom ==
  [][\A c \in Conns :
       \/ wire'[c] = wire[c]
       \/ wire[c] /= <<>> /\ wire'[c] = Tail(wire[c])
       \/ /\ Len(published') = 1
          /\ published'[1].exclude /= c
          /\ c \in roomClients'[published'[1].roomId]
          /\ wire'[c] = Append(wire[c], published'[1].event)]_vars

\* Two connections each hold the same two different events, in one order.
C27_Witness ==
  \E c1, c2 \in Conns :
    /\ c1 /= c2
    /\ Len(wire[c1]) = 2
    /\ wire[c1][1] /= wire[c1][2]
    /\ wire[c2] = wire[c1]

\* C28: in every state reached through the request API and its timers each
\* stored message has status "sent" or "delivered", never "read", and a
\* message that is "delivered" is never "sent" again.
C28_StatusLifecycle ==
  /\ [](\A i \in 1..Len(messages) : messages[i].status \in {"sent", "delivered"})
  /\ [][\A i \in 1..Len(messages) :
          messages[i].status = "delivered" =>
            /\ i <= Len(messages')
            /\ messages'[i].id = messages[i].id
            /\ messages'[i].status = "delivered"]_vars

\* Both messages sent through the endpoint have been delivered, and the
\* room has been listed since.
C28_Witness ==
  /\ Len(messages) = 2
  /\ \A i \in 1..2 : messages[i].status = "delivered"
  /\ deliveryTimers = {}
  /\ lastOp.type = "list_messages" /\ lastOp.status = 200

\* The windows of `limit` messages from `offset` on, one after the other.
RECURSIVE Pages(_, _, _)
Pages(roomId, limit, offset) ==
  IF offset >= Len(RoomSequence(roomId)) THEN <<>>
  ELSE getMessages(roomId, limit, offset) \o Pages(roomId, limit, offset + limit)

\* C29: getMessages(roomId, limit, offset) returns exactly the messages at
\* positions offset .. offset+limit-1 of the room's ascending sequence (so
\* only messages of the room, in ascending timestamp order), and the
\* consecutive windows of one limit concatenate to the whole sequence.
C29_PaginationWindow ==
  /\ lastOp.type = "getMessages" =>
       lastOp.result = Slice(RoomSequence(lastOp.roomId), lastOp.offset, lastOp.limit)
  /\ \A roomId \in MessageRoomIds, limit \in MessageLimits :
       Pages(roomId, limit, 0) = RoomSequence(roomId)

\* The stored users with a membership row in the room whose online flag is set.
OnlineMembers(roomId) ==
  {users[u].id : u \in {v \in 1..Len(users) :
      /\ users[v].isOnline
      /\ \E i \in 1..Len(roomMembers) :
           roomMembers[i].roomId = roomId /\ roomMembers[i].userId = users[v].id}}

MessagesOf(roomId) == {i \in 1..Len(messages) : messages[i].roomId = roomId}

\* C30: every room summary returned by getChatRoomsForUser agrees with the
\* store at the time of the call: lastMessage is a message of the room with
\* the greatest timestamp and is absent exactly when the room has no
\* message, onlineCount is the number of distinct members that are online,
\* and unreadCount is 0.
C30_SummaryConsistent ==
  lastOp.type = "getChatRoomsForUser" =>
    \A r \in 1..Len(lastOp.rooms) :
      LET summary == lastOp.rooms[r]
      IN  /\ summary.unreadCount = 0
          /\ summary.onlineCount = Cardinality(OnlineMembers(summary.id))
          /\ (summary.lastMessage = <<>>) <=> (MessagesOf(summary.id) = {})
          /\ summary.lastMessage /= <<>> =>
               /\ summary.lastMessage[1].roomId = summary.id
               /\ \E i \in MessagesOf(summary.id) : messages[i] = summary.lastMessage[1]
               /\ \A i \in MessagesOf(summary.id) :
                    messages[i].timestamp <= summary.lastMessage[1].timestamp

\* C31: expiry timers are not reset or cancelled by later writes. A
\* set-typing call arms a new timer and leaves every pending timer in place
\* (several may be pending for one key); and when a timer of (u, r) fires,
\* the row of (u, r) is removed however recently it was written, so u is not
\* among the typing users of r afterwards, and the other timers stay.
C31_TimersNotCancelled ==
  [][/\ (lastOp'.type = "set_typing" /\ typingTimers' /= typingTimers) =>
          /\ Len(typingTimers') = Len(typingTimers) + 1
          /\ SubSeq(typingTimers', 1, Len(typingTimers)) = typingTimers
     /\ \A userId \in StorageUserIds, roomId \in RoomIds :
          (/\ Len(typingTimers') = Len(typingTimers) - 1
           /\ lastOp'.type = "typing_timer"
           /\ lastOp'.userId = userId /\ lastOp'.roomId = roomId) =>
            /\ \A i \in 1..Len(typingStatuses') :
                 ~(typingStatuses'[i].userId = userId /\ typingStatuses'[i].roomId = roomId)
            /\ userId \notin TypingIn(roomId)'
    ]_vars

\* The first timer of (1, 1) has fired and removed the row although a later
\* write, less than three seconds old, has its own timer still pending.
C31_Witness ==
  /\ lastOp.type = "typing_timer" /\ lastOp.userId = 1 /\ lastOp.roomId = 1
  /\ TypingKey(1, 1) = {}
  /\ 1 \notin TypingIn(1)
  /\ Len(typingTimers) = 1
  /\ typingTimers[1].userId = 1 /\ typingTimers[1].roomId = 1
  /\ typingTimers[1].due > now

\* ---------------------------------------------- typing rows and their expiry
\* The typing endpoints with timers that run when they are due: the clock
\* does not pass a timer that is due, a due timer eventually runs, and a
\* write is followed for the three seconds of its timer.
NoTypingTimerDue == \A i \in 1..Len(typingTimers) : typingTimers[i].due > now
ExpirySetTyping == now + TypingClearDelay <= MaxTypingTime /\ ApiSetTyping
ExpiryTick == NoTypingTimerDue /\ TypingTick
ExpiryNext ==
  \/ ExpirySetTyping
  \/ ApiListTyping
  \/ ApiTypingCleared
  \/ ExpiryTick

SpecExpiry ==
  /\ ApiInit
  /\ [][ExpiryNext]_vars
  /\ WF_vars(ApiTypingCleared)
  /\ WF_vars(ExpiryTick)

\* C32: every set-typing write, with isTyping true or false, schedules an
\* expiry: a stored row always has a pending timer of its key due three
\* seconds after the row was written, no row is older than three seconds,
\* and every row is eventually removed.
C32_EveryRowExpires ==
  /\ [](\A r \in 1..Len(typingStatuses) :
          /\ \E i \in 1..Len(typingTimers) :
               /\ typingTimers[i].userId = typingStatuses[r].userId
               /\ typingTimers[i].roomId = typingStatuses[r].roomId
               /\ typingTimers[i].due = typingStatuses[r].lastUpdate + TypingClearDelay
          /\ now - typingStatuses[r].lastUpdate <= TypingClearDelay)
  /\ \A userId \in StorageUserIds, roomId \in RoomIds :
       (TypingKey(userId, roomId) /= {}) ~> (TypingKey(userId, roomId) = {})

\* A row written with isTyping false is three seconds old and its timer is due.
C32_Witness ==
  /\ Len(typingStatuses) = 1
  /\ ~typingStatuses[1].isTyping
  /\ now - typingStatuses[1].lastUpdate = TypingClearDelay
  /\ Len(typingTimers) = 1
  /\ typingTimers[1].due = now

\* ------------------------------------------------- typing indicators pushed
\* Browsers of the pushed chat that type: the typing_status frames on the
\* socket, the typing endpoint when the socket is not open, the server
\* relaying the frames, sockets that close and the reconnect that follows.
\* Frames are handled, the typist's timeout and the reconnect timeout run,
\* in every run.  The rooms a browser can select are
\* those GET /api/rooms lists; one browser types and loses its connection,
\* the other one watches.
MaxTypingFrames == 2
MaxIndicatorTime == 3
Typist == "A"

IndicatorMount ==
  \E k \in Clients, room \in RoomIds :
    /\ RoomAccess(room) = 200
    /\ Mount(k, room)
    /\ UNCHANGED <<regVars, storeVars, reqVars>>
IndicatorTyping ==
  \E k \in {Typist} :
    /\ Len(typingTimers) + 2 <= MaxTypingCalls
    /\ \A c \in Conns : Len(up[c]) + Len(wire[c]) + 2 <= MaxTypingFrames
    /\ handleTyping(k)
    /\ UNCHANGED reqVars
IndicatorStops == \E k \in {Typist} : TypingStops(k) /\ UNCHANGED reqVars
IndicatorRelayed ==
  \E c \in Conns :
    /\ up[c] /= <<>>
    /\ Head(up[c]).type = "typing_status"
    /\ OnTypingStatus(c, Head(up[c]).isTyping)
    /\ up' = [up EXCEPT ![c] = Tail(@)]
    /\ wire' = Transmit(sent')
    /\ UNCHANGED <<storeVars, reqVars, clientVars>>
IndicatorServerClose ==
  \E c \in Conns :
    /\ socketOwner[c] = Typist
    /\ socketState[c] = "OPEN"
    /\ OnClose(c)
    /\ wire' = Transmit(sent')
    /\ UNCHANGED <<storeVars, reqVars, up, clientVars>>
IndicatorClientClose ==
  \E c \in Conns :
    /\ socketOwner[c] = Typist
    /\ socketState[c] = "OPEN"
    /\ now + ReconnectDelay(reconnectAttempts[Typist]) <= MaxIndicatorTime
    /\ ClientOnClose(c)
    /\ UNCHANGED notClient
IndicatorReconnect ==
  \E i \in 1..maxReconnectAttempts :
    ReconnectTimerFires(Typist, i) /\ UNCHANGED notClient
IndicatorTick ==
  /\ now < MaxIndicatorTime
  /\ NoTimerDue
  /\ Tick
  /\ UNCHANGED <<reqVars, netVars, clientVars>>
IndicatorNext ==
  \/ IndicatorMount
  \/ PushAccept
  \/ PushOpen
  \/ PushJoinRoom
  \/ PushReceive
  \/ IndicatorTyping
  \/ IndicatorStops
  \/ IndicatorRelayed
  \/ IndicatorServerClose
  \/ IndicatorClientClose
  \/ IndicatorReconnect
  \/ IndicatorTick

SpecIndicators ==
  /\ PushInit
  /\ [][IndicatorNext]_vars
  /\ WF_vars(PushAccept) /\ WF_vars(PushOpen) /\ WF_vars(PushJoinRoom)
  /\ WF_vars(PushReceive) /\ WF_vars(IndicatorRelayed) /\ WF_vars(IndicatorStops)
  /\ WF_vars(IndicatorReconnect) /\ WF_vars(IndicatorTick)

\* The users in the realtime typing list of client k.
Indicated(k) == {realtimeTypingUsers[k][i] : i \in 1..Len(realtimeTypingUsers[k])}

\* The typist's browser is connected and idle: its current socket is open
\* on both sides and in the set of the room it shows, nothing is typed, no
\* reconnect is pending and no frame is on its way anywhere.
TypistSettled ==
  LET c == wsCurrent[Typist]
  IN  /\ c /= NoConn
      /\ socketState[c] = "OPEN" /\ readyState[c] = "OPEN"
      /\ HasRoom(roomClients, selectedRoom[Typist])
      /\ c \in roomClients[selectedRoom[Typist]]
      /\ ~inputIsTyping[Typist]
      /\ reconnectTimers[Typist] = <<>>
      /\ \A d \in Conns : up[d] = <<>> /\ wire[d] = <<>>

\* C33: a typing indicator shown by a receiving client is eventually
\* removed, also when the typist's connection closed without having sent
\* isTyping false: no user stays in a client's typing list for ever, not
\* even while the typist's browser is connected again and idle.
C33_IndicatorsRemoved ==
  \A k \in Clients, userId \in StorageUserIds :
    []<>(userId \notin Indicated(k) \/ ~TypistSettled)

\* ------------------------------------------------------- changing the room
\* C34: a join_room for room R2 from a connection that is in the set of a
\* different room R1 takes it out of R1's set and puts it into R2's set,
\* writes user_joined to the other open connections of R2 and to nobody
\* else, and writes no user_left.
C34_RoomChange ==
  [][\A ws \in Conns, R1 \in RoomIds, R2 \in RoomIds :
       (/\ lastOp'.type = "join_room" /\ lastOp'.ws = ws /\ lastOp'.roomId = R2
        /\ R1 /= R2
        /\ currentRoomId[ws] = R1
        /\ HasRoom(roomClients, R1) /\ ws \in roomClients[R1]) =>
         /\ ws \notin roomClients'[R1]
         /\ HasRoom(roomClients', R2) /\ ws \in roomClients'[R2]
         /\ \A c \in Conns :
              sent'[c] = IF c \in roomClients'[R2] \ {ws} /\ readyState[c] = "OPEN"
                         THEN <<UserJoined(lastOp'.userId, R2)>>
                         ELSE <<>>
    ]_vars

\* ------------------------------------------------- what a new_message carries
\* C35: a new_message event written to a connection carries a stored
\* message of the room it is published in, sent by the user the publishing
\* connection joined with.
C35_PushedIsStored ==
  \A i \in 1..Len(published) :
    (/\ published[i].event.type = "new_message"
     /\ \E c \in Conns : sent[c] /= <<>>) =>
      \E j \in 1..Len(messages) :
        /\ messages[j].id = published[i].event.message.id
        /\ messages[j].roomId = published[i].roomId
        /\ messages[j].senderId = currentUserId[lastOp.ws]

\* ------------------------------------------------------- online and sessions
\* The users some session of the session table maps to.
SessionUsers == {userSessions[sessionId] : sessionId \in DOMAIN userSessions}

\* C36: between requests, a user's online flag is true exactly when a
\* session maps to the user.
C36_OnlineIffSession ==
  NoSignupInFlight =>
    \A i \in 1..Len(users) : users[i].isOnline <=> users[i].id \in SessionUsers

\* ------------------------------------------------------ membership rows
\* The membership rows linking userId and roomId.
RowsOf(userId, roomId) ==
  {i \in 1..Len(roomMembers) :
     roomMembers[i].userId = userId /\ roomMembers[i].roomId = roomId}

\* C37: under every interleaving of signup requests no two membership rows
\* share (userId, roomId); a row is added only by a signup, and it links
\* the user and the room that signup created; a signup adds one session of
\* its user and one room; and a signup answered 200 has created one user,
\* one room and one row linking them.
C37_OneRowPerPair ==
  /\ [](\A userId \in 0..Len(users), roomId \in 0..Len(chatRooms) :
          Cardinality(RowsOf(userId, roomId)) <= 1)
  /\ [](\A i \in 1..Len(roomMembers) :
          /\ roomMembers[i].userId \in 1..Len(users)
          /\ roomMembers[i].roomId \in 1..Len(chatRooms))
  /\ [](\A q \in SignupReqs :
          (signup[q].pc = "done" /\ signup[q].status = 200) =>
            /\ Cardinality({i \in 1..Len(users) : users[i].id = signup[q].newUser}) = 1
            /\ Cardinality({i \in 1..Len(chatRooms) :
                              chatRooms[i].id = signup[q].welcomeRoom}) = 1
            /\ Cardinality(RowsOf(signup[q].newUser, signup[q].welcomeRoom)) = 1
            /\ Cardinality({i \in 1..Len(roomMembers) :
                              \/ roomMembers[i].userId = signup[q].newUser
                              \/ roomMembers[i].roomId = signup[q].welcomeRoom}) = 1)
  /\ [][/\ roomMembers' /= roomMembers =>
             \E q \in SignupReqs :
               /\ signup[q].pc = "room" /\ signup'[q].pc = "member"
               /\ Len(roomMembers') = Len(roomMembers) + 1
               /\ SubSeq(roomMembers', 1, Len(roomMembers)) = roomMembers
               /\ roomMembers'[Len(roomMembers')].userId = signup[q].newUser
               /\ roomMembers'[Len(roomMembers')].roomId = signup[q].welcomeRoom
        /\ \A q \in SignupReqs :
             (signup[q].pc = "created" /\ signup'[q].pc = "room") =>
               /\ Len(chatRooms') = Len(chatRooms) + 1
               /\ Cardinality(DOMAIN userSessions' \ DOMAIN userSessions) = 1
               /\ \A sessionId \in DOMAIN userSessions' \ DOMAIN userSessions :
                    userSessions'[sessionId] = signup[q].newUser
               /\ \A sessionId \in DOMAIN userSessions :
                    /\ sessionId \in DOMAIN userSessions'
                    /\ userSessions'[sessionId] = userSessions[sessionId]
     ]_vars

\* Two signup requests were handled at the same time and both answered 200.
C37_Witness ==
  \E q1, q2 \in SignupReqs :
    /\ q1 /= q2
    /\ signup[q1].pc = "done" /\ signup[q1].status = 200
    /\ signup[q2].pc = "done" /\ signup[q2].status = 200
    /\ signup[q1].before = signup[q2].before
    /\ Len(roomMembers) = 2

\* ------------------------------------------------------- after disconnect()
\* The sockets of client k that are connecting or open.
OpenOrConnecting(k) ==
  {c \in Conns : socketOwner[c] = k /\ socketState[c] \in {"CONNECTING", "OPEN"}}

\* A client never has more than one socket connecting or open.
OneLiveSocket == \A k \in Clients : Cardinality(OpenOrConnecting(k)) <= 1

\* C38: the close of a socket that disconnect() closed schedules no
\* reconnect, and a client never has more than one socket connecting or open.
C38_DisconnectIsFinal ==
  /\ [][\A c \in Conns :
          (socketState[c] = "CLOSING" /\ socketState'[c] \in {"CLOSED", "NONE"}) =>
            reconnectTimers' = reconnectTimers]_vars
  /\ []OneLiveSocket

\* ---------------------------------------------------- a user of two rooms
\* The store of the two signups after storage.addUserToRoom has made
\* current_user a member of the second room as well: its browser lists two
\* rooms and can go from one to the other.
TwoRoomStore ==
  /\ users = <<[id |-> 1, username |-> "current_user", password |-> "123456",
                 isOnline |-> TRUE],
               [id |-> 2, username |-> "bob", password |-> "123456",
                 isOnline |-> TRUE]>>
  /\ chatRooms = <<[id |-> 1], [id |-> 2]>>
  /\ roomMembers = <<[id |-> 1, userId |-> 1, roomId |-> 1],
                     [id |-> 2, userId |-> 2, roomId |-> 2],
                     [id |-> 3, userId |-> 1, roomId |-> 2]>>
  /\ messages = <<>>
  /\ deliveryTimers = {}
  /\ userSessions = (1 :> 1) @@ (2 :> 2)
  /\ sessionCount = 2
  /\ now = 1
  /\ typingStatuses = <<>>
  /\ typingTimers = <<>>

RoomsInit == RegistryInit /\ TwoRoomStore /\ SignupInit /\ BrowsersInit

RoomsClient == "A"
RoomsMount == \E room \in RoomIds : Mount(RoomsClient, room) /\ UNCHANGED notClient
RoomsSelect ==
  \E room \in RoomIds :
    /\ Len(reconnectTimers[RoomsClient]) < MaxPendingTimers
    /\ SelectRoom(RoomsClient, room)
    /\ UNCHANGED notClient
RoomsClosed ==
  \E c \in Conns :
    /\ socketState[c] = "CLOSING"
    /\ ClientOnClose(c)
    /\ UNCHANGED notClient
RoomsSend ==
  \E content \in Contents :
    /\ Len(messages) < MaxMessages
    /\ handleSendMessage(RoomsClient, content)
    /\ UNCHANGED reqVars
RoomsNext ==
  \/ RoomsMount
  \/ RoomsSelect
  \/ RoomsClosed
  \/ RoomsSend
  \/ PushAccept
  \/ PushOpen
  \/ PushJoinRoom
  \/ PushNewMessage
  \/ PushReceive
  \/ PushSettled
  \/ PushFetchServed
  \/ PushFetchArrives

SpecRooms == RoomsInit /\ [][RoomsNext]_vars

\* C39: the local message list of a browser holds only messages of the room
\* it shows.
C39_OnlyViewedRoom ==
  \A k \in Clients : \A i \in 1..Len(chatMessages[k]) :
    chatMessages[k][i].roomId = selectedRoom[k]

\* ------------------------------------------------------ joining on open
\* C40: when a socket of a client that has a selected room and a user
\* opens, join_room for that room and user is sent on it.
C40_JoinOnOpen ==
  [][\A c \in Conns :
       LET k == socketOwner[c]
       IN  (/\ socketState[c] = "CONNECTING" /\ socketState'[c] = "OPEN"
            /\ Truthy(selectedRoom[k]) /\ Truthy(clientUser[k])) =>
             up'[c] = Append(up[c], [type |-> "join_room", roomId |-> selectedRoom[k],
                                     userId |-> clientUser[k]])
    ]_vars

====
